---- MODULE Spec2Model ----
(***************************************************************************)
(* CiteCheck: the citation extractor (src/lib/extractor.ts), the format    *)
(* validator, the verification engine (src/lib/verifier.ts) and the        *)
(* process-wide rate limiter, modelled as state machines.                  *)
(*                                                                         *)
(* Strings are sequences of one-character strings, so that the regular     *)
(* expressions of the extractor and the substring tests of the verifier    *)
(* are computed character by character, as the code computes them.         *)
(***************************************************************************)
EXTENDS Integers, Sequences, FiniteSets, TLC

(***************************************************************************)
(* Characters and character classes of the JavaScript regular expressions. *)
(***************************************************************************)
UpperSeq ==
  <<"A","B","C","D","E","F","G","H","I","J","K","L","M",
    "N","O","P","Q","R","S","T","U","V","W","X","Y","Z">>

LowerSeq ==
  <<"a","b","c","d","e","f","g","h","i","j","k","l","m",
    "n","o","p","q","r","s","t","u","v","w","x","y","z">>

DigitSeq == <<"0","1","2","3","4","5","6","7","8","9">>

Range(s) == {s[k] : k \in DOMAIN s}

UpperCh == Range(UpperSeq)

LowerCh == Range(LowerSeq)

\* \d
DigitCh == Range(DigitSeq)

\* \w
WordCh == UpperCh \cup LowerCh \cup DigitCh \cup {"_"}

\* \s
SpaceCh == {" ", "\t", "\n"}

\* the characters of the texts considered
Char == WordCh \cup SpaceCh \cup {".", ",", "'", "-", "(", ")", ";", ":"}

\* String.prototype.toLowerCase, one character
ToLowerCh(c) ==
  IF c \in UpperCh THEN LowerSeq[CHOOSE k \in DOMAIN UpperSeq : UpperSeq[k] = c] ELSE c

ToUpperCh(c) ==
  IF c \in LowerCh THEN UpperSeq[CHOOSE k \in DOMAIN LowerSeq : LowerSeq[k] = c] ELSE c

\* String.prototype.toLowerCase
toLowerCase(s) == [k \in DOMAIN s |-> ToLowerCh(s[k])]

\* the value of a missing optional field
Undefined == <<"undefined">>

\* JavaScript truthiness of an optional string: undefined and '' are falsy
Truthy(s) == s # Undefined /\ s # <<>>

(***************************************************************************)
(* The Reporter Table (src/lib/types.ts).                                  *)
(***************************************************************************)
FEDERAL_REPORTERS ==
  << <<"U",".","S",".">>,
     <<"S","."," ","C","t",".">>,
     <<"L","."," ","E","d",".">>,
     <<"L","."," ","E","d","."," ","2","d">>,
     <<"F",".">>,
     <<"F",".","2","d">>,
     <<"F",".","3","d">>,
     <<"F",".","4","t","h">>,
     <<"F","."," ","S","u","p","p",".">>,
     <<"F","."," ","S","u","p","p","."," ","2","d">>,
     <<"F","."," ","S","u","p","p","."," ","3","d">>,
     <<"F",".","R",".","D",".">>,
     <<"B",".","R",".">>,
     <<"F","e","d","."," ","C","l",".">>,
     <<"V","e","t","."," ","A","p","p",".">> >>

STATE_REPORTERS ==
  << <<"N",".","Y",".">>,
     <<"N",".","Y",".","2","d">>,
     <<"N",".","Y",".","3","d">>,
     <<"A",".","D",".">>,
     <<"A",".","D",".","2","d">>,
     <<"A",".","D",".","3","d">>,
     <<"C","a","l",".">>,
     <<"C","a","l","."," ","2","d">>,
     <<"C","a","l","."," ","3","d">>,
     <<"C","a","l","."," ","4","t","h">>,
     <<"C","a","l","."," ","5","t","h">>,
     <<"C","a","l","."," ","A","p","p",".">>,
     <<"C","a","l","."," ","A","p","p","."," ","2","d">>,
     <<"C","a","l","."," ","A","p","p","."," ","3","d">>,
     <<"C","a","l","."," ","A","p","p","."," ","4","t","h">>,
     <<"C","a","l","."," ","A","p","p","."," ","5","t","h">>,
     <<"I","l","l",".">>,
     <<"I","l","l","."," ","2","d">>,
     <<"I","l","l","."," ","A","p","p",".">>,
     <<"I","l","l","."," ","A","p","p","."," ","2","d">>,
     <<"I","l","l","."," ","A","p","p","."," ","3","d">>,
     <<"T","e","x",".">>,
     <<"P","a",".">>,
     <<"O","h","i","o"," ","S","t",".">>,
     <<"O","h","i","o"," ","S","t","."," ","2","d">>,
     <<"O","h","i","o"," ","S","t","."," ","3","d">>,
     <<"M","a","s","s",".">>,
     <<"N",".","J",".">>,
     <<"M","i","c","h",".">>,
     <<"M","i","n","n",".">>,
     <<"W","i","s",".">>,
     <<"W","i","s","."," ","2","d">> >>

REGIONAL_REPORTERS ==
  << <<"A",".">>,
     <<"A",".","2","d">>,
     <<"A",".","3","d">>,
     <<"N",".","E",".">>,
     <<"N",".","E",".","2","d">>,
     <<"N",".","E",".","3","d">>,
     <<"N",".","W",".">>,
     <<"N",".","W",".","2","d">>,
     <<"P",".">>,
     <<"P",".","2","d">>,
     <<"P",".","3","d">>,
     <<"S",".","E",".">>,
     <<"S",".","E",".","2","d">>,
     <<"S",".","W",".">>,
     <<"S",".","W",".","2","d">>,
     <<"S",".","W",".","3","d">>,
     <<"S","o",".">>,
     <<"S","o","."," ","2","d">>,
     <<"S","o","."," ","3","d">> >>

\* { ...FEDERAL_REPORTERS, ...STATE_REPORTERS, ...REGIONAL_REPORTERS }: the keys in
\* insertion order (no key occurs in two of the tables)
ALL_REPORTERS == FEDERAL_REPORTERS \o STATE_REPORTERS \o REGIONAL_REPORTERS

IsKnownReporter(r) == r \in {ALL_REPORTERS[k] : k \in DOMAIN ALL_REPORTERS}

(***************************************************************************)
(* Regular expressions.  A pattern is a tree.  The match returned is the    *)
(* one the backtracking matcher of ECMAScript finds first: the leftmost    *)
(* start, then greedy quantifiers at their longest, lazy ones at their     *)
(* shortest and alternations at their leftmost alternative, as far as the  *)
(* rest of the pattern still matches.  The patterns used have no           *)
(* backreference and no lookahead, so whether the rest matches depends     *)
(* only on the position reached: Pre computes from where a pattern can     *)
(* reach a set of positions, Take picks the preferred match.               *)
(***************************************************************************)
Cls(S) == [t |-> "cls", s |-> S]

Cat(rs) == [t |-> "cat", rs |-> rs]

Alt(rs) == [t |-> "alt", rs |-> rs]

\* c{lo,hi} for a character class c; hi = -1 is no upper limit
Rep(S, lo, hi, greedy) == [t |-> "rep", s |-> S, lo |-> lo, hi |-> hi, greedy |-> greedy]

Star(S) == Rep(S, 0, -1, TRUE)

Plus(S) == Rep(S, 1, -1, TRUE)

LazyStar(S) == Rep(S, 0, -1, FALSE)

LazyPlus(S) == Rep(S, 1, -1, FALSE)

\* (?:r)?
Opt(r) == [t |-> "opt", r |-> r]

\* capturing group number k
Grp(k, r) == [t |-> "grp", k |-> k, r |-> r]

\* (?<!c) for a character class
NotBehind(S) == [t |-> "nlb", s |-> S]

\* $
Eos == [t |-> "eos"]

\* a literal character under the i flag
Lit(c) == Cls({ToLowerCh(c), ToUpperCh(c)})

\* literal words under the i flag with \s* between one word and the next; each
\* word is given as the sequence of its characters' classes
Words(ws) == [t |-> "words", ws |-> ws]

\* an alternation of literal words, indexed by the character an alternative ends
\* with and by the character it starts with
AltWords(rs) ==
  [t |-> "keys", rs |-> rs,
   endingWith |-> [c \in Char |->
     {k \in DOMAIN rs : LET ws == rs[k].ws
                            w == ws[Len(ws)]
                        IN c \in w[Len(w)]}],
   startingWith |-> [c \in Char |-> {k \in DOMAIN rs : c \in rs[k].ws[1][1]}]]

Fail == [ok |-> FALSE]

\* the positions of txt: position p is before the p-th character
Positions(txt) == 1..(Len(txt) + 1)

\* how many characters of class S precede position e, counted up to hi (hi = -1:
\* all of them)
RunBefore(txt, e, S, hi) ==
  LET room == e - 1
      cap == IF hi >= 0 /\ hi < room THEN hi ELSE room
  IN CHOOSE n \in 0..cap :
       /\ n = cap \/ txt[e - n - 1] \notin S
       /\ \A j \in 1..n : txt[e - j] \in S

\* how many characters of class S follow position p, counted up to hi
RunAfter(txt, p, S, hi) ==
  LET room == Len(txt) - p + 1
      cap == IF hi >= 0 /\ hi < room THEN hi ELSE room
  IN CHOOSE n \in 0..cap :
       /\ n = cap \/ txt[p + n] \notin S
       /\ \A j \in 0..(n - 1) : txt[p + j] \in S

\* where the words ws[1..k], with \s* between them, start when they end at
\* position e; 0 when they do not end there (a word is followed by a word, so the
\* whitespace between two words is all the whitespace there is)
RECURSIVE WordsStart(_, _, _, _)
WordsStart(ws, k, txt, e) ==
  LET w == ws[k]
      s == e - Len(w)
  IN IF s < 1 \/ \E j \in DOMAIN w : txt[s + j - 1] \notin w[j] THEN 0
     ELSE IF k = 1 THEN s
     ELSE LET before == s - RunBefore(txt, s, SpaceCh, -1)
          IN WordsStart(ws, k - 1, txt, before)

\* the two halves of a concatenation of two or more patterns (concatenation is
\* associative; halving keeps the evaluation shallow)
Front(rs) == Cat(SubSeq(rs, 1, Len(rs) \div 2))

Back(rs) == Cat(SubSeq(rs, Len(rs) \div 2 + 1, Len(rs)))

\* Pre(re, txt, T): the positions from which re matches a stretch of txt that ends
\* at a position of T
RECURSIVE Pre(_, _, _)
Pre(re, txt, T) ==
  IF T = {} THEN {} ELSE
  CASE re.t = "cls" -> {e - 1 : e \in {e \in T : e > 1 /\ txt[e - 1] \in re.s}}
    [] re.t = "cat" ->
         IF Len(re.rs) = 0 THEN T
         ELSE IF Len(re.rs) = 1 THEN LET r == re.rs[1] IN Pre(r, txt, T)
         ELSE LET front == Front(re.rs)
                  back == Back(re.rs)
                  mid == Pre(back, txt, T)
              IN Pre(front, txt, mid)
    [] re.t = "alt" ->
         LET rs == re.rs
         IN UNION {Pre(rs[k], txt, T) : k \in DOMAIN rs}
    [] re.t = "rep" ->
         UNION {{e - n : n \in re.lo..RunBefore(txt, e, re.s, re.hi)} : e \in T}
    [] re.t = "words" ->
         LET ws == re.ws
             n == Len(ws)
         IN {WordsStart(ws, n, txt, e) : e \in T} \ {0}
    [] re.t = "keys" ->
         LET rs == re.rs
             endingWith == re.endingWith
         IN UNION {{WordsStart(rs[k].ws, Len(rs[k].ws), txt, e) :
                      k \in endingWith[txt[e - 1]]} : e \in T \ {1}} \ {0}
    [] re.t = "opt" -> LET r == re.r IN Pre(r, txt, T) \cup T
    [] re.t = "grp" -> LET r == re.r IN Pre(r, txt, T)
    [] re.t = "nlb" -> {p \in T : ~(p > 1 /\ txt[p - 1] \in re.s)}
    [] re.t = "eos" -> {p \in T : p = Len(txt) + 1}

Least(S) == CHOOSE n \in S : \A m \in S : n <= m

Greatest(S) == CHOOSE n \in S : \A m \in S : m <= n

\* Take(re, txt, p, T, caps): the match of re from p that the backtracking matcher
\* finds first among those ending in T (p is in Pre(re, txt, T)): greedy quantifiers
\* prefer the longest repetition, lazy ones the shortest, alternations the leftmost
\* alternative; the groups it closes are recorded in caps
RECURSIVE Take(_, _, _, _, _)
Take(re, txt, p, T, caps) ==
  CASE re.t = "cls" -> [pos |-> p + 1, caps |-> caps]
    [] re.t = "cat" ->
         IF Len(re.rs) = 0 THEN [pos |-> p, caps |-> caps]
         ELSE IF Len(re.rs) = 1 THEN LET r == re.rs[1] IN Take(r, txt, p, T, caps)
         ELSE LET front == Front(re.rs)
                  back == Back(re.rs)
                  mid == Pre(back, txt, T)
                  taken == Take(front, txt, p, mid, caps)
                  pos == taken.pos
                  got == taken.caps
              IN IF pos >= p THEN Take(back, txt, pos, T, got) ELSE Fail
    [] re.t = "alt" ->
         LET rs == re.rs
             first == Least({k \in DOMAIN rs : p \in Pre(rs[k], txt, T)})
             r == rs[first]
         IN Take(r, txt, p, T, caps)
    [] re.t = "rep" ->
         LET ns == {n \in re.lo..RunAfter(txt, p, re.s, re.hi) : (p + n) \in T}
         IN [pos |-> p + (IF re.greedy THEN Greatest(ns) ELSE Least(ns)), caps |-> caps]
    [] re.t = "words" ->
         LET ws == re.ws
             n == Len(ws)
         IN [pos |-> CHOOSE e \in T : WordsStart(ws, n, txt, e) = p, caps |-> caps]
    [] re.t = "keys" ->
         LET rs == re.rs
             first == Least({k \in re.startingWith[txt[p]] :
                               \E e \in T : WordsStart(rs[k].ws, Len(rs[k].ws), txt, e) = p})
             r == rs[first]
         IN Take(r, txt, p, T, caps)
    [] re.t = "opt" ->
         LET r == re.r
         IN IF p \in Pre(r, txt, T) THEN Take(r, txt, p, T, caps)
            ELSE [pos |-> p, caps |-> caps]
    [] re.t = "grp" ->
         LET r == re.r
             taken == Take(r, txt, p, T, caps)
         IN [pos |-> taken.pos, caps |-> [taken.caps EXCEPT ![re.k] = <<p, taken.pos>>]]
    [] re.t \in {"nlb", "eos"} -> [pos |-> p, caps |-> caps]

\* whether exec finds a match at all (the loop condition "!== null")
Matches(re, txt, lastIndex) ==
  LET after == {p \in Positions(txt) : p > lastIndex}
  IN Pre(re, txt, after) \cap after # {}

\* RegExp.prototype.exec of a pattern with n groups from lastIndex (0-based): the
\* leftmost match at or after it, with index and end as 0-based offsets
ExecFrom(re, n, txt, lastIndex) ==
  LET after == {p \in Positions(txt) : p > lastIndex}
      starts == Pre(re, txt, after) \cap after
  IN IF starts = {} THEN Fail
     ELSE LET s == Least(starts)
              none == [k \in 1..n |-> <<0, 0>>]
              r == Take(re, txt, s, after, none)
          IN [ok |-> TRUE, index |-> s - 1, end |-> r.pos - 1, caps |-> r.caps]

\* match[k]: the text of group k, undefined when the group took no part
Group(m, txt, k) ==
  IF m.caps[k] = <<0, 0>> THEN Undefined
  ELSE SubSeq(txt, m.caps[k][1], m.caps[k][2] - 1)

\* match[0]
Whole(m, txt) == SubSeq(txt, m.index + 1, m.end)

(***************************************************************************)
(* The patterns of the extractor (src/lib/extractor.ts).                   *)
(***************************************************************************)
RECURSIVE ByLengthDesc(_, _)
ByLengthDesc(keys, n) ==
  IF n = 0 THEN <<>>
  ELSE SelectSeq(keys, LAMBDA k : Len(k) = n) \o ByLengthDesc(keys, n - 1)

\* the words of a key: its maximal stretches without whitespace, in order
WordsOf(key) ==
  LET starts == {k \in DOMAIN key :
                   key[k] \notin SpaceCh /\ (k = 1 \/ key[k - 1] \in SpaceCh)}
      ends(s) == Least({k \in s..Len(key) :
                   k = Len(key) \/ key[k + 1] \in SpaceCh})
      nth(n) == CHOOSE s \in starts : Cardinality({q \in starts : q <= s}) = n
  IN [n \in 1..Cardinality(starts) |-> SubSeq(key, nth(n), ends(nth(n)))]

\* r.replace(/\./g, '\\.').replace(/\s/g, '\\s*'), compiled under the i flag: every
\* character stands for itself in either case, whitespace for \s*
EscapeReporter(key) ==
  LET ws == WordsOf(key)
  IN Words([n \in DOMAIN ws |->
              [j \in DOMAIN ws[n] |-> {ToLowerCh(ws[n][j]), ToUpperCh(ws[n][j])}]])

\* the keys longest first (the sort is stable), each as a pattern
reporterNames ==
  LET longest == CHOOSE n \in {Len(ALL_REPORTERS[k]) : k \in DOMAIN ALL_REPORTERS} :
                   \A k \in DOMAIN ALL_REPORTERS : Len(ALL_REPORTERS[k]) <= n
      sorted == ByLengthDesc(ALL_REPORTERS, longest)
  IN [k \in DOMAIN sorted |-> EscapeReporter(sorted[k])]

REPORTER_PATTERN == AltWords(reporterNames)

\* [A-Z] under the i flag
LetterCh == UpperCh \cup LowerCh

\* [\w.'\-]
NameCh == WordCh \cup {".", "'", "-"}

\* [\w\s,'\-]
NameTailCh == WordCh \cup SpaceCh \cup {",", "'", "-"}

\* [^)]
NotParenCh == Char \ {")"}

\* (?:v\.?|vs\.?)
Versus ==
  Alt(<<Cat(<<Lit("v"), Opt(Lit("."))>>), Cat(<<Lit("v"), Lit("s"), Opt(Lit("."))>>)>>)

\* ([A-Z][\w.'\-]+(?:\s+(?:v\.?|vs\.?)\s+[A-Z][\w.'\-]+[\w\s,'\-]*?))
CaseNameGroup ==
  Grp(1, Cat(<<Cls(LetterCh), Plus(NameCh),
               Plus(SpaceCh), Versus, Plus(SpaceCh),
               Cls(LetterCh), Plus(NameCh), LazyStar(NameTailCh)>>))

\* (\d{1,4})\s*(REPORTER)\s*(\d{1,5})(?:\s*,\s*(\d{1,5}))?(?:\s*\(([^)]+?)\s*(\d{4})\))?
\* with the volume as group g
VolumeReporterPage(g) ==
  <<Grp(g, Rep(DigitCh, 1, 4, TRUE)), Star(SpaceCh),
    Grp(g + 1, REPORTER_PATTERN), Star(SpaceCh),
    Grp(g + 2, Rep(DigitCh, 1, 5, TRUE)),
    Opt(Cat(<<Star(SpaceCh), Lit(","), Star(SpaceCh),
              Grp(g + 3, Rep(DigitCh, 1, 5, TRUE))>>)),
    Opt(Cat(<<Star(SpaceCh), Lit("("), Grp(g + 4, LazyPlus(NotParenCh)),
              Star(SpaceCh), Grp(g + 5, Rep(DigitCh, 4, 4, TRUE)), Lit(")")>>))>>

fullCitation ==
  Cat(<<CaseNameGroup, Opt(Lit(",")), Star(SpaceCh)>> \o VolumeReporterPage(2))

shortCitation == Cat(<<NotBehind(WordCh)>> \o VolumeReporterPage(1))

(***************************************************************************)
(* String helpers of the extractor (src/lib/extractor.ts).                 *)
(***************************************************************************)
\* String.prototype.trim
trim(s) ==
  LET kept == {k \in DOMAIN s : s[k] \notin SpaceCh}
  IN IF kept = {} THEN <<>> ELSE SubSeq(s, Least(kept), Greatest(kept))

\* s.replace(/\s+/g, ' '): every run of whitespace becomes one space
CollapseSpaces(s) ==
  LET marked == [k \in DOMAIN s |->
                   IF s[k] \notin SpaceCh THEN s[k]
                   ELSE IF k > 1 /\ s[k - 1] \in SpaceCh THEN "" ELSE " "]
  IN SelectSeq(marked, LAMBDA c : c # "")

\* s.replace(/,\s*$/, ''): a comma followed by nothing but whitespace is cut off
DropTrailingComma(s) ==
  LET at == {k \in DOMAIN s : s[k] = "," /\ \A j \in (k + 1)..Len(s) : s[j] \in SpaceCh}
  IN IF at = {} THEN s ELSE SubSeq(s, 1, Least(at) - 1)

\* s.replace(/^\s*,/, ''): a comma preceded by nothing but whitespace is cut off
DropLeadingComma(s) ==
  LET at == {k \in DOMAIN s : s[k] = "," /\ \A j \in 1..(k - 1) : s[j] \in SpaceCh}
  IN IF at = {} THEN s ELSE SubSeq(s, Least(at) + 1, Len(s))

cleanCaseName(name) ==
  IF ~Truthy(name) THEN Undefined
  ELSE trim(DropLeadingComma(DropTrailingComma(CollapseSpaces(name))))

normalizeReporter(reporter) == trim(CollapseSpaces(reporter))

normalizeWhitespace(str) == toLowerCase(trim(CollapseSpaces(str)))

\* [A-Z][\w.'\-]+\s+v\.?\s+[A-Z][\w.'\-]+
PartiesPattern ==
  <<Cls(LetterCh), Plus(NameCh), Plus(SpaceCh), Lit("v"), Opt(Lit(".")), Plus(SpaceCh),
    Cls(LetterCh), Plus(NameCh)>>

\* the three patterns of extractPrecedingCaseName, each with one group
precedingPatterns ==
  <<Cat(<<Grp(1, Cat(PartiesPattern \o <<LazyStar(NameTailCh)>>)),
          Star(SpaceCh), Opt(Lit(",")), Star(SpaceCh), Eos>>),
    Cat(<<Lit("S"), Lit("e"), Lit("e"), Plus(SpaceCh), Grp(1, Cat(PartiesPattern))>>),
    Cat(<<Lit("i"), Lit("n"), Plus(SpaceCh), Grp(1, Cat(PartiesPattern))>>)>>

\* text.match(pattern) for the patterns in turn; the first that matches decides
extractPrecedingCaseName(txt) ==
  LET found == [k \in DOMAIN precedingPatterns |-> ExecFrom(precedingPatterns[k], 1, txt, 0)]
      hits == {k \in DOMAIN precedingPatterns : found[k].ok}
  IN IF hits = {} THEN Undefined
     ELSE cleanCaseName(Group(found[Least(hits)], txt, 1))

\* how far back the short-citation pass looks for a case name
PrecedingWindow == 200

\* text.substring(Math.max(0, matchIndex - 200), matchIndex)
precedingText(txt, matchIndex) ==
  SubSeq(txt, (IF matchIndex > PrecedingWindow THEN matchIndex - PrecedingWindow ELSE 0) + 1,
         matchIndex)

\* match[k]?.trim()
TrimIfDefined(s) == IF s = Undefined THEN Undefined ELSE trim(s)

\* the list in the order in which the two passes retained the citations
InOrderOfRetention(cs) == cs

\* citations.sort((a, b) => a.startIndex - b.startIndex); the sort is stable
SortByStartIndex(cs) ==
  LET rank(k) == Cardinality({j \in DOMAIN cs :
                    \/ cs[j].startIndex < cs[k].startIndex
                    \/ cs[j].startIndex = cs[k].startIndex /\ j <= k})
  IN [n \in DOMAIN cs |-> cs[CHOOSE k \in DOMAIN cs : rank(k) = n]]

(***************************************************************************)
(* The format validator (src/lib/extractor.ts, validateCitationFormat).    *)
(***************************************************************************)
\* the value of a field the lookup service left null
Null == <<"null">>

\* JavaScript truthiness of a string field that may be undefined or null
Present(s) == s # Undefined /\ s # Null /\ s # <<>>

\* a template literal's ${x}: an undefined value is spelled out
Str(x) == IF x = Undefined THEN <<"u","n","d","e","f","i","n","e","d">> ELSE x

\* x || d
OrElse(x, d) == IF Truthy(x) THEN x ELSE d

NaN == -1

DigitValue(c) == (CHOOSE k \in DOMAIN DigitSeq : DigitSeq[k] = c) - 1

\* the digits from position k on are read one by one; acc is the value so far
RECURSIVE ReadDigits(_, _, _)
ReadDigits(s, k, acc) ==
  IF k > Len(s) \/ s[k] \notin DigitCh THEN acc
  ELSE ReadDigits(s, k + 1, 10 * acc + DigitValue(s[k]))

\* parseInt of a string that carries no sign and no radix prefix: leading
\* whitespace is skipped and the leading run of digits is read; NaN without one
parseInt(s) ==
  LET from == RunAfter(s, 1, SpaceCh, -1) + 1
  IN IF from > Len(s) \/ s[from] \notin DigitCh THEN NaN
     ELSE ReadDigits(s, from, 0)

\* a comparison with NaN is false
Below(a, b) == a # NaN /\ b # NaN /\ a < b

\* new Date().getFullYear()
currentYear == 2026

\* the names every object inherits from Object.prototype, which the lookup
\* ALL_REPORTERS[name] finds as well
ObjectPrototypeNames ==
  { <<"c","o","n","s","t","r","u","c","t","o","r">>,
    <<"t","o","S","t","r","i","n","g">>,
    <<"v","a","l","u","e","O","f">>,
    <<"h","a","s","O","w","n","P","r","o","p","e","r","t","y">>,
    <<"i","s","P","r","o","t","o","t","y","p","e","O","f">>,
    <<"t","o","L","o","c","a","l","e","S","t","r","i","n","g">>,
    <<"p","r","o","p","e","r","t","y","I","s","E","n","u","m","e","r","a","b","l","e">>,
    <<"_","_","p","r","o","t","o","_","_">> }

\* an issue or a warning: its fixed text and the values spliced into it
Message(msg, args) == [msg |-> msg, args |-> args]

validateCitationFormat(citation) ==
  LET volume == parseInt(OrElse(citation.volume, <<"0">>))
      page == parseInt(OrElse(citation.page, <<"0">>))
      year == parseInt(citation.year)
      normalizedReporter == CollapseSpaces(citation.reporter)
      volumeIssue ==
        IF Below(volume, 1) \/ Below(2000, volume)
        THEN <<Message("Unusual volume number: ", <<Str(citation.volume)>>)>> ELSE <<>>
      pageIssue ==
        IF Below(page, 1) \/ Below(10000, page)
        THEN <<Message("Unusual page number: ", <<Str(citation.page)>>)>> ELSE <<>>
      yearIssue ==
        IF Truthy(citation.year) /\ (Below(year, 1789) \/ Below(currentYear, year))
        THEN <<Message("Year out of range: ", <<citation.year>>)>> ELSE <<>>
      reporterIssue ==
        IF ~(IsKnownReporter(normalizedReporter) \/ normalizedReporter \in ObjectPrototypeNames)
        THEN <<Message("Unknown reporter: ", <<citation.reporter>>)>> ELSE <<>>
      issues == volumeIssue \o pageIssue \o yearIssue \o reporterIssue
  IN [valid |-> issues = <<>>, issues |-> issues]

(***************************************************************************)
(* The confidence score (src/lib/verifier.ts, calculateConfidence).        *)
(***************************************************************************)
\* String.prototype.includes
Includes(s, sub) ==
  \E k \in 0..(Len(s) - Len(sub)) : SubSeq(s, k + 1, k + Len(sub)) = sub

\* `${citation.volume} ${citation.reporter} ${citation.page}`
citationStr(citation) ==
  Str(citation.volume) \o <<" ">> \o Str(citation.reporter) \o <<" ">> \o Str(citation.page)

\* where the match of /\s+v\.?\s+/i that starts at position k ends, 0 when none
\* starts there: all the whitespace, the letter in either case, the period when
\* whitespace follows it, and all of that whitespace
SeparatorEnd(s, k) ==
  LET letter == k + RunAfter(s, k, SpaceCh, -1)
      period == letter + 1
      rest == IF period <= Len(s) /\ s[period] = "." THEN period + 1 ELSE period
      spaces == RunAfter(s, rest, SpaceCh, -1)
  IN IF letter = k \/ letter > Len(s) \/ s[letter] \notin {"v", "V"} \/ spaces = 0 THEN 0
     ELSE rest + spaces

\* String.prototype.split with that pattern: the pieces between one match and
\* the next, from position `from` on
RECURSIVE SplitFrom(_, _)
SplitFrom(s, from) ==
  LET starts == {k \in from..Len(s) : SeparatorEnd(s, k) > 0}
  IN IF starts = {} THEN <<SubSeq(s, from, Len(s))>>
     ELSE <<SubSeq(s, from, Least(starts) - 1)>>
            \o SplitFrom(s, SeparatorEnd(s, Least(starts)))

SplitParties(name) == SplitFrom(name, 1)

\* lines 119-133: the first citation string that matches exactly or partially
\* decides, and the loop breaks there
CitationStringScore(citation, result) ==
  LET resultCitations == IF Present(result.citation) THEN result.citation ELSE <<>>
      wanted == toLowerCase(citationStr(citation))
      exact(k) == Includes(toLowerCase(resultCitations[k]), wanted)
      partial(k) == /\ Includes(resultCitations[k], OrElse(citation.volume, <<>>))
                    /\ Includes(resultCitations[k], OrElse(citation.page, <<>>))
      qualifying == {k \in DOMAIN resultCitations : exact(k) \/ partial(k)}
  IN IF qualifying = {} THEN 0
     ELSE IF exact(Least(qualifying)) THEN 50 ELSE 30

\* lines 144-150: how many of the parties, stripped of what is neither a word
\* character nor whitespace, occur in the candidate's name
PartyMatches(parties, resultName) ==
  LET citeParties == parties
      simplified(k) ==
        trim(SelectSeq(citeParties[k], LAMBDA c : c \in WordCh \cup SpaceCh))
  IN Cardinality({k \in DOMAIN citeParties :
                    simplified(k) # <<>> /\ Includes(resultName, simplified(k))})

\* lines 135-157: the parties of the cited name found in the candidate's name
CaseNameScore(citation, result) ==
  IF ~(Truthy(citation.caseName) /\ Present(result.case_name)) THEN 0
  ELSE LET citeName == toLowerCase(citation.caseName)
           resultName == toLowerCase(result.case_name)
           partyMatches == PartyMatches(SplitParties(citeName), resultName)
       IN IF partyMatches >= 2 THEN 30
          ELSE IF partyMatches = 1 THEN 15
          ELSE 0

\* String.prototype.substring(0, 4)
FirstFour(s) == SubSeq(s, 1, IF Len(s) < 4 THEN Len(s) ELSE 4)

\* lines 159-167
YearScore(citation, result) ==
  IF ~(Truthy(citation.year) /\ Present(result.date_filed)) THEN 0
  ELSE LET resultYear == FirstFour(result.date_filed)
           a == parseInt(citation.year)
           b == parseInt(resultYear)
       IN IF citation.year = resultYear THEN 20
          ELSE IF a # NaN /\ b # NaN /\ a - b <= 1 /\ b - a <= 1 THEN 10
          ELSE 0

\* Math.min
Min(a, b) == IF a <= b THEN a ELSE b

\* calculateConfidence with each of the two parties of the name scored on its
\* own and the sum left as it is
calculateConfidenceUncapped(citation, result) ==
  CitationStringScore(citation, result)
    + 2 * CaseNameScore(citation, result)
    + YearScore(citation, result)

\* lines 116-170
calculateConfidence(citation, result) ==
  Min(100, CitationStringScore(citation, result)
             + CaseNameScore(citation, result)
             + YearScore(citation, result))

(***************************************************************************)
(* The results of verifyCitation (src/lib/verifier.ts, lines 173-307).     *)
(* The details text of a result is display text and is left out.           *)
(***************************************************************************)
\* a format error that drops the validator's issues
FormatErrorWithoutIssues(citation, issues) ==
  [citation |-> citation, status |-> "format_error", confidence |-> 0,
   warnings |-> <<>>]

\* lines 179-185
FormatErrorResult(citation, issues) ==
  [citation |-> citation, status |-> "format_error", confidence |-> 0,
   warnings |-> issues]

\* a failed lookup reported as a citation that was not found
ApiErrorAsNotFound(citation) ==
  [citation |-> citation, status |-> "not_found", confidence |-> 0,
   warnings |-> <<Message("No matching case in database", <<>>)>>]

\* lines 198-204
ApiErrorResult(citation) ==
  [citation |-> citation, status |-> "api_error", confidence |-> 0,
   warnings |-> <<Message("API request failed", <<>>)>>]

\* an empty result set reported as a failure of the service
NoResultsAsApiError(citation) ==
  [citation |-> citation, status |-> "api_error", confidence |-> 0,
   warnings |-> <<Message("API request failed", <<>>)>>]

\* lines 209-215
NoResultsResult(citation) ==
  [citation |-> citation, status |-> "not_found", confidence |-> 0,
   warnings |-> <<Message("No matching case in database", <<>>)>>]

\* lines 232-238
NoMatchResult(citation) ==
  [citation |-> citation, status |-> "not_found", confidence |-> 0,
   warnings |-> <<Message("No confident match found", <<>>)>>]

\* line 224 for every candidate in turn
Confidences(citation, results) ==
  [k \in DOMAIN results |-> calculateConfidence(citation, results[k])]

\* lines 220-229: the confidence of the best candidate, 0 when none scores
bestConfidence(confidences) ==
  IF confidences = <<>> THEN 0
  ELSE Greatest({confidences[k] : k \in DOMAIN confidences})

\* the last of the candidates with the best score: a loop that replaces the best
\* candidate on an equal score as well
bestMatchLast(confidences) ==
  LET best == bestConfidence(confidences)
  IN IF best = 0 THEN 0
     ELSE Greatest({k \in DOMAIN confidences : confidences[k] = best})

\* lines 220-229: the index of the best candidate, the first one with the best
\* score (a later one replaces it only with a greater score); 0 for null
bestMatch(confidences) ==
  LET best == bestConfidence(confidences)
  IN IF best = 0 THEN 0
     ELSE Least({k \in DOMAIN confidences : confidences[k] = best})

\* p.replace(/[^\w]/g, '').trim() of every piece of the split name
WordParties(name) ==
  LET parties == SplitParties(name)
  IN [k \in DOMAIN parties |-> trim(SelectSeq(parties[k], LAMBDA c : c \in WordCh))]

\* lines 241-263: the warnings after the case-name check
MismatchWarnings(citation, match) ==
  IF ~(Truthy(citation.caseName) /\ Present(match.case_name)) THEN <<>>
  ELSE LET citeParties == WordParties(toLowerCase(citation.caseName))
           matchParties == WordParties(toLowerCase(match.case_name))
           anyMatch == \E i \in DOMAIN citeParties : \E j \in DOMAIN matchParties :
                         /\ citeParties[i] # <<>>
                         /\ matchParties[j] # <<>>
                         /\ \/ Includes(citeParties[i], matchParties[j])
                            \/ Includes(matchParties[j], citeParties[i])
       IN IF anyMatch THEN <<>>
          ELSE <<Message("Case name mismatch", <<citation.caseName, match.case_name>>)>>

\* Array.prototype.join(', ')
RECURSIVE Join(_)
Join(strs) ==
  IF strs = <<>> THEN <<>>
  ELSE IF Len(strs) = 1 THEN strs[1]
  ELSE strs[1] \o <<",", " ">> \o Join(Tail(strs))

\* lines 273-279 and 289-295
MatchedCase(match) ==
  [caseName |-> match.case_name,
   citation |-> IF Present(match.citation) THEN Join(match.citation) ELSE <<>>,
   dateFiled |-> match.date_filed,
   court |-> match.court,
   docketNumber |-> match.docket_number]

\* `https://www.courtlistener.com${bestMatch.absolute_url}`
CourtListenerUrl(match) ==
  <<"h","t","t","p","s",":","/","/","w","w","w",".","c","o","u","r","t",
    "l","i","s","t","e","n","e","r",".","c","o","m">> \o Str(match.absolute_url)

\* the classification with the first threshold exclusive
ClassifyAboveThreshold(citation, match, confidence, warnings) ==
  IF confidence > 70
  THEN [citation |-> citation, status |-> "verified", confidence |-> confidence,
        courtListenerUrl |-> CourtListenerUrl(match),
        matchedCase |-> MatchedCase(match),
        warnings |-> warnings]
  ELSE IF confidence >= 40
  THEN [citation |-> citation, status |-> "partial_match", confidence |-> confidence,
        courtListenerUrl |-> CourtListenerUrl(match),
        matchedCase |-> MatchedCase(match),
        warnings |-> Append(warnings, Message("Low confidence match - verify manually", <<>>))]
  ELSE [citation |-> citation, status |-> "not_found", confidence |-> confidence,
        warnings |-> Append(warnings,
                       Message("Very low confidence - likely not a match", <<>>))]

\* the classification with the rejected candidate left in the result
ClassifyKeepingMatch(citation, match, confidence, warnings) ==
  [citation |-> citation,
   status |-> IF confidence >= 70 THEN "verified"
              ELSE IF confidence >= 40 THEN "partial_match" ELSE "not_found",
   confidence |-> confidence,
   courtListenerUrl |-> CourtListenerUrl(match),
   matchedCase |-> MatchedCase(match),
   warnings |-> IF confidence >= 70 THEN warnings
                ELSE IF confidence >= 40
                THEN Append(warnings, Message("Low confidence match - verify manually", <<>>))
                ELSE Append(warnings,
                       Message("Very low confidence - likely not a match", <<>>))]

\* the classification that takes a name mismatch for a reason to doubt: a
\* candidate at 70 or above is a partial match when a warning came with it
ClassifyDoubtingMismatch(citation, match, confidence, warnings) ==
  IF confidence >= 70 /\ warnings = <<>>
  THEN [citation |-> citation, status |-> "verified", confidence |-> confidence,
        courtListenerUrl |-> CourtListenerUrl(match),
        matchedCase |-> MatchedCase(match),
        warnings |-> warnings]
  ELSE IF confidence >= 40
  THEN [citation |-> citation, status |-> "partial_match", confidence |-> confidence,
        courtListenerUrl |-> CourtListenerUrl(match),
        matchedCase |-> MatchedCase(match),
        warnings |-> Append(warnings, Message("Low confidence match - verify manually", <<>>))]
  ELSE [citation |-> citation, status |-> "not_found", confidence |-> confidence,
        warnings |-> Append(warnings,
                       Message("Very low confidence - likely not a match", <<>>))]

\* lines 265-306: the status by the confidence of the best candidate
Classify(citation, match, confidence, warnings) ==
  IF confidence >= 70
  THEN [citation |-> citation, status |-> "verified", confidence |-> confidence,
        courtListenerUrl |-> CourtListenerUrl(match),
        matchedCase |-> MatchedCase(match),
        warnings |-> warnings]
  ELSE IF confidence >= 40
  THEN [citation |-> citation, status |-> "partial_match", confidence |-> confidence,
        courtListenerUrl |-> CourtListenerUrl(match),
        matchedCase |-> MatchedCase(match),
        warnings |-> Append(warnings, Message("Low confidence match - verify manually", <<>>))]
  ELSE [citation |-> citation, status |-> "not_found", confidence |-> confidence,
        warnings |-> Append(warnings,
                       Message("Very low confidence - likely not a match", <<>>))]

\* what a query hands back: null, or the parsed body of the response
NullResult == [null |-> TRUE]

Parsed(body) == [null |-> FALSE, body |-> body]

\* a failed query taken for an empty result set
searchOutcomeEmptyOnFailure(response) ==
  IF response.kind = "json" THEN Parsed(response.body)
  ELSE Parsed([count |-> 0, results |-> <<>>])

\* lines 81-92 and 103-112: a rejected fetch, a non-success status and a body
\* that response.json() cannot parse all end in null; any parsed body is
\* returned as it is
searchOutcome(response) ==
  IF response.kind = "json" THEN Parsed(response.body) ELSE NullResult

\* searchResult.count === 0
CountIsZero(searchResult) ==
  /\ "count" \in DOMAIN searchResult.body
  /\ searchResult.body.count = 0

\* a fallback for failed queries only
NeedsFallbackOnFailure(searchResult) == searchResult.null

\* line 192: !searchResult || searchResult.count === 0
NeedsFallback(searchResult) == searchResult.null \/ CountIsZero(searchResult)

\* lines 218-306: the candidates are scored and the best one classified
EvaluateResults(citation, results, confidences) ==
  LET scored == confidences
      k == bestMatch(scored)
  IN IF k = 0 THEN NoMatchResult(citation)
     ELSE Classify(citation, results[k], bestConfidence(scored),
                   MismatchWarnings(citation, results[k]))

\* lines 196-306, from the final searchResult on: the result returned, or the
\* TypeError of iterating results that are not there (line 223)
Evaluate(citation, searchResult) ==
  IF searchResult.null THEN [threw |-> FALSE, result |-> ApiErrorResult(citation)]
  ELSE IF CountIsZero(searchResult)
  THEN [threw |-> FALSE, result |-> NoResultsResult(citation)]
  ELSE IF "results" \notin DOMAIN searchResult.body THEN [threw |-> TRUE]
  ELSE [threw |-> FALSE,
        result |-> EvaluateResults(citation, searchResult.body.results,
                     Confidences(citation, searchResult.body.results))]

(***************************************************************************)
(* The citations and the answers of the lookup service considered.         *)
(***************************************************************************)
\* a full citation as the extractor returns it
RoeCitation ==
  [raw |-> <<"R","o","e"," ","v","."," ","W","a","d","e",","," ","4","1","0"," ","U",".","S","."," ","1","1","3"," ","(","U",".","S","."," ","1","9","7","3",")">>,
   caseName |-> <<"R","o","e"," ","v","."," ","W","a","d","e">>,
   volume |-> <<"4","1","0">>, reporter |-> <<"U",".","S",".">>, page |-> <<"1","1","3">>,
   court |-> <<"U",".","S",".">>, year |-> <<"1","9","7","3">>,
   startIndex |-> 0, endIndex |-> 37]

\* a short citation: no case name, no court, no year
ShortCitation ==
  [raw |-> <<"1","2"," ","U",".","S","."," ","3","4">>,
   caseName |-> Undefined,
   volume |-> <<"1","2">>, reporter |-> <<"U",".","S",".">>, page |-> <<"3","4">>,
   court |-> Undefined, year |-> Undefined,
   startIndex |-> 0, endIndex |-> 10]

\* a page beyond the validator's range
LongPageCitation ==
  [raw |-> <<"9","9","9"," ","F",".","3","d"," ","9","9","9","9","9">>,
   caseName |-> Undefined,
   volume |-> <<"9","9","9">>, reporter |-> <<"F",".","3","d">>, page |-> <<"9","9","9","9","9">>,
   court |-> Undefined, year |-> Undefined,
   startIndex |-> 4, endIndex |-> 18]

\* volume 0, a reporter in lower case and a year to come
OddCitation ==
  [raw |-> <<"0"," ","u",".","s","."," ","2"," ","(","2","d"," ","C","i","r","."," ","2","9","9","9",")">>,
   caseName |-> Undefined,
   volume |-> <<"0">>, reporter |-> <<"u",".","s",".">>, page |-> <<"2">>,
   court |-> <<"2","d"," ","C","i","r",".">>, year |-> <<"2","9","9","9">>,
   startIndex |-> 0, endIndex |-> 23]

CitationPool == {RoeCitation, ShortCitation, LongPageCitation, OddCitation}

\* candidate records (CourtListenerCase); for RoeCitation they score 100, 70, 40 and
\* 35; a record without citation strings carries the empty list, which the code
\* treats as it treats null
RoeCase ==
  [absolute_url |-> <<"/","o","p","i","n","i","o","n","/","1","0","8","7","1","3","/">>,
   case_name |-> <<"R","o","e"," ","v","."," ","W","a","d","e">>,
   citation |-> <<<<"4","1","0"," ","U",".","S","."," ","1","1","3">>, <<"9","3"," ","S","."," ","C","t","."," ","7","0","5">>>>,
   date_filed |-> <<"1","9","7","3","-","0","1","-","2","2">>,
   court |-> <<"s","c","o","t","u","s">>, docket_number |-> <<"7","0","-","1","8">>]

OtherNameCase ==
  [absolute_url |-> <<"/","o","p","i","n","i","o","n","/","1","/">>,
   case_name |-> <<"S","m","i","t","h"," ","v","."," ","J","o","n","e","s">>,
   citation |-> <<<<"4","1","0"," ","U",".","S","."," ","1","1","3">>>>,
   date_filed |-> <<"1","9","7","3","-","0","3","-","0","5">>,
   court |-> <<"s","c","o","t","u","s">>, docket_number |-> Null]

PartialCase ==
  [absolute_url |-> <<"/","o","p","i","n","i","o","n","/","2","/">>,
   case_name |-> Null,
   citation |-> <<<<"1","1","3"," ","F","."," ","4","1","0">>>>,
   date_filed |-> <<"1","9","7","4","-","0","6","-","0","1">>,
   court |-> <<"c","a","2">>, docket_number |-> Null]

NameOnlyCase ==
  [absolute_url |-> <<"/","o","p","i","n","i","o","n","/","3","/">>,
   case_name |-> <<"D","o","e"," ","v","."," ","W","a","d","e">>,
   citation |-> <<>>,
   date_filed |-> <<"1","9","7","3","-","0","9","-","0","9">>,
   court |-> <<"t","x","n","d">>, docket_number |-> Null]

CandidatePool == {RoeCase, OtherNameCase, PartialCase, NameOnlyCase}

(***************************************************************************)
(* The state of the program.                                               *)
(***************************************************************************)
VARIABLES
  text,             \* the argument of extractCitations
  phase,            \* "full": first loop, "short": second loop, "returned"
  lastIndex,        \* lastIndex of the pattern of the running loop
  citations,        \* the citations array; the returned list once phase = "returned"
  seen,             \* the set of deduplication keys
  calls,            \* per caller: the state of its verifyCitations call
  now,              \* Date.now()
  lastRequestTime,  \* the module variable of the rate limiter
  requests,         \* the requests sent to the lookup service: when, and by whom
  service,          \* the responses the lookup service may give to a request
  cli,              \* the run of the command line tool: argv, position, exit code
  argument,         \* the argument of a function called on its own
  returned,         \* what that function returned
  history           \* the texts of the extractCitations calls made, with their lists

extractorVars == <<text, phase, lastIndex, citations, seen>>

verifierVars == <<calls, now, lastRequestTime, requests, service>>

callerVars == <<cli, argument, returned, history>>

vars ==
  <<text, phase, lastIndex, citations, seen, calls, now, lastRequestTime, requests, service,
    cli, argument, returned, history>>

\* the values of the variables of a caller that is not there
NoCli == [pc |-> "absent"]

NoCaller ==
  /\ cli = NoCli
  /\ argument = <<>>
  /\ returned = <<>>
  /\ history = <<>>

MIN_REQUEST_INTERVAL == 500

\* Date.now() when the first call starts: long after time 0
Epoch == 1000

\* the clock advances in steps of TickMs: up to MaxClock while a response is
\* awaited, and beyond it only to let a pending delay run out
TickMs == 250

MaxClock == 1500

\* the requests the POST route serves in one process, each running its own
\* verifyCitations
Callers == {"first", "second"}

\* a verifyCitations call on the citations `input`: i results are in so far; pc is
\* "loop" at the head of the loop, "delay1"/"delay2" in the setTimeout of the
\* structured/the components query, "fetch1"/"fetch2" while that query is in
\* flight, "returned" or "thrown" at the end; answers are the responses received
\* for the citation under verification, or verified last
NewCall(input) ==
  [input |-> input, i |-> 0, results |-> <<>>, pc |-> "loop", due |-> 0,
   answers |-> <<>>]

(***************************************************************************)
(* extractCitations as a state machine: one step per iteration of each of  *)
(* its two loops.                                                          *)
(***************************************************************************)
\* the texts considered: up to MaxFragments fragments, one after the other
RoeFragment ==
  <<"R","o","e"," ","v","."," ","W","a","d","e",","," ",
    "4","1","0"," ","U",".","S","."," ","1","1","3"," ","(","1","9","7","3",")">>

Fragments ==
  { RoeFragment,
    <<"1","2"," ","U",".","S","."," ","3","4">>,
    <<" ","(">>,
    <<";"," ">>,
    <<"s","e","e"," ","9","9","9"," ","F",".","3","d"," ","9","9","9","9","9","9">>,
    <<"1"," ","u",".","s","."," ","2">>,
    <<" ","(","2","d"," ","C","i","r","."," ","1","9","9","9",")">>,
    <<"3"," ","F",".","S","u","p","p","."," ","4">> }

MaxFragments == 3

RECURSIVE TextsOf(_)
TextsOf(n) ==
  IF n = 0 THEN {<<>>}
  ELSE LET shorter == TextsOf(n - 1)
       IN shorter \cup {t \o f : t \in shorter, f \in Fragments}

Texts == TextsOf(MaxFragments)

ExtractInit ==
  /\ text \in Texts
  /\ phase = "full"
  /\ lastIndex = 0
  /\ citations = <<>>
  /\ seen = {}
  /\ calls = [c \in Callers |-> NewCall(<<>>)]
  /\ now = Epoch
  /\ lastRequestTime = 0
  /\ requests = <<>>
  /\ service = {}
  /\ NoCaller

\* a set of keys that never holds a key
HasNone(keys, key) == FALSE

\* seen.has(normalizedRaw), lines 52 and 78
Has(keys, key) == key \in keys

\* a short pass that takes no retained citation for an overlap
IsOverlappingNever(retained, matchIndex) == FALSE

\* lines 81-83: the match starts inside a citation retained so far
IsOverlapping(retained, matchIndex) ==
  \E k \in DOMAIN retained :
    /\ matchIndex >= retained[k].startIndex
    /\ matchIndex < retained[k].endIndex

\* first loop, lines 48-68: a match of the full pattern
FullCitationMatch ==
  /\ phase = "full"
  /\ LET match == ExecFrom(fullCitation, 7, text, lastIndex)
     IN /\ match.ok
        /\ lastIndex' = match.end
        /\ LET raw == trim(Whole(match, text))
               normalizedRaw == normalizeWhitespace(raw)
           IN IF Has(seen, normalizedRaw)
              THEN UNCHANGED <<citations, seen>>
              ELSE /\ seen' = seen \cup {normalizedRaw}
                   /\ citations' = Append(citations,
                        [raw |-> raw,
                         caseName |-> cleanCaseName(Group(match, text, 1)),
                         volume |-> Group(match, text, 2),
                         reporter |-> normalizeReporter(Group(match, text, 3)),
                         page |-> Group(match, text, 4),
                         court |-> TrimIfDefined(Group(match, text, 6)),
                         year |-> Group(match, text, 7),
                         startIndex |-> match.index,
                         endIndex |-> match.index + Len(raw)])
  /\ UNCHANGED <<text, phase>>
  /\ UNCHANGED verifierVars
  /\ UNCHANGED callerVars

\* the full pattern matches no more: the second loop starts with a new pattern
FullPassEnds ==
  /\ phase = "full"
  /\ ~Matches(fullCitation, text, lastIndex)
  /\ phase' = "short"
  /\ lastIndex' = 0
  /\ UNCHANGED <<text, citations, seen>>
  /\ UNCHANGED verifierVars
  /\ UNCHANGED callerVars

\* second loop, lines 73-106: a match of the short pattern
ShortCitationMatch ==
  /\ phase = "short"
  /\ LET match == ExecFrom(shortCitation, 6, text, lastIndex)
     IN /\ match.ok
        /\ lastIndex' = match.end
        /\ LET raw == trim(Whole(match, text))
               normalizedRaw == normalizeWhitespace(raw)
               matchIndex == match.index
               isOverlapping == IsOverlapping(citations, matchIndex)
           IN IF Has(seen, normalizedRaw) \/ isOverlapping
              THEN UNCHANGED <<citations, seen>>
              ELSE /\ seen' = seen \cup {normalizedRaw}
                   /\ citations' = Append(citations,
                        [raw |-> raw,
                         caseName |-> extractPrecedingCaseName(precedingText(text, matchIndex)),
                         volume |-> Group(match, text, 1),
                         reporter |-> normalizeReporter(Group(match, text, 2)),
                         page |-> Group(match, text, 3),
                         court |-> TrimIfDefined(Group(match, text, 5)),
                         year |-> Group(match, text, 6),
                         startIndex |-> matchIndex,
                         endIndex |-> matchIndex + Len(raw)])
  /\ UNCHANGED <<text, phase>>
  /\ UNCHANGED verifierVars
  /\ UNCHANGED callerVars

\* the short pattern matches no more: lines 108-111, sort and return
SortAndReturn ==
  /\ phase = "short"
  /\ ~Matches(shortCitation, text, lastIndex)
  /\ citations' = SortByStartIndex(citations)
  /\ phase' = "returned"
  /\ UNCHANGED <<text, lastIndex, seen>>
  /\ UNCHANGED verifierVars
  /\ UNCHANGED callerVars

ExtractNext == FullCitationMatch \/ FullPassEnds \/ ShortCitationMatch \/ SortAndReturn

SpecExtract == ExtractInit /\ [][ExtractNext]_vars


(***************************************************************************)
(* verifyCitations, verifyCitation and the rate limiter as a state         *)
(* machine (src/lib/verifier.ts).                                          *)
(***************************************************************************)
MaxCitations == 2

MaxResults == 2

\* the lists of up to n elements of S
RECURSIVE ListsOf(_, _)
ListsOf(S, n) ==
  IF n = 0 THEN {<<>>}
  ELSE LET shorter == ListsOf(S, n - 1)
       IN shorter \cup {Append(l, x) : l \in {m \in shorter : Len(m) = n - 1}, x \in S}

\* the bodies SearchResponse describes, count > 0 with an empty page among them
WellFormedBodies ==
  {[count |-> Len(rs), results |-> rs] : rs \in ListsOf(CandidatePool, MaxResults)}
    \cup {[count |-> 1, results |-> <<>>]}

\* bodies that parse as JSON but lack count, results or both
MalformedBodies ==
  { [count |-> 1],
    [results |-> <<RoeCase>>],
    [detail |-> <<"e","r","r","o","r">>] }

\* what the lookup service can answer a request with: fetch rejects, the status
\* is not a success, the body is no JSON, or the body parses
Responses ==
  {[kind |-> "thrown"], [kind |-> "http_error"], [kind |-> "unparseable"]}
    \cup {[kind |-> "json", body |-> b] : b \in WellFormedBodies \cup MalformedBodies}

\* the responses of a service that either refuses or finds the one case
BriefResponses ==
  { [kind |-> "http_error"],
    [kind |-> "json", body |-> [count |-> 1, results |-> <<RoeCase>>]] }

\* one caller verifies up to MaxCitations citations against a service that may
\* answer anything, or each of two callers verifies one citation
VerifyInit ==
  /\ \/ /\ \E input \in ListsOf(CitationPool, MaxCitations) :
              calls = [c \in Callers |-> NewCall(IF c = "first" THEN input ELSE <<>>)]
        /\ service = Responses
     \/ /\ \E first \in CitationPool : \E second \in CitationPool :
              calls = [c \in Callers |->
                         NewCall(IF c = "first" THEN <<first>> ELSE <<second>>)]
        /\ service = BriefResponses
  /\ now = Epoch
  /\ lastRequestTime = 0
  /\ requests = <<>>
  /\ text = <<>>
  /\ phase = "returned"
  /\ lastIndex = 0
  /\ citations = <<>>
  /\ seen = {}
  /\ NoCaller

\* the request that caller c sends now for the citation it is verifying: the
\* structured query (searchByCitation) or the components query
NewRequest(c, call, query) ==
  [at |-> now, by |-> c, i |-> call.i + 1, query |-> query, answered |-> FALSE]

\* the log of the requests sent once the response to the request of caller c
\* that is in flight has arrived
Settled(sent, c) ==
  LET open == {k \in DOMAIN sent : sent[k].by = c /\ ~sent[k].answered}
  IN IF open = {} THEN sent
     ELSE [sent EXCEPT ![Least(open)].answered = TRUE]

\* a fetch that is sent at once, whatever the time of the last request
StartRequestAtOnce(c, call, sent, delayPc, fetchPc) ==
  /\ calls' = [calls EXCEPT ![c] = [call EXCEPT !.pc = fetchPc]]
  /\ lastRequestTime' = now
  /\ requests' =
       Append(sent, NewRequest(c, call, IF fetchPc = "fetch1" THEN "structured"
                                        ELSE "components"))

\* rateLimitedFetch, lines 41-51, up to its await or, when there is nothing to
\* wait for, up to the fetch; sent is the log of the requests up to here
StartRequest(c, call, sent, delayPc, fetchPc) ==
  LET timeSinceLastRequest == now - lastRequestTime
  IN IF timeSinceLastRequest < MIN_REQUEST_INTERVAL
     THEN /\ calls' = [calls EXCEPT ![c] =
                         [call EXCEPT !.pc = delayPc,
                                      !.due = now + (MIN_REQUEST_INTERVAL - timeSinceLastRequest)]]
          /\ requests' = sent
          /\ UNCHANGED lastRequestTime
     ELSE /\ calls' = [calls EXCEPT ![c] = [call EXCEPT !.pc = fetchPc]]
          /\ lastRequestTime' = now
          /\ requests' =
               Append(sent, NewRequest(c, call, IF fetchPc = "fetch1" THEN "structured"
                                                ELSE "components"))

\* a loop that goes on to the next citation without the result of this one
FinishWithoutResult(c, call, sent, outcome) ==
  /\ calls' = [calls EXCEPT ![c] =
                 IF outcome.threw THEN [call EXCEPT !.pc = "thrown"]
                 ELSE [call EXCEPT !.pc = "loop", !.i = @ + 1]]
  /\ requests' = sent
  /\ UNCHANGED lastRequestTime

\* verifyCitation is over: lines 317-318 push its result, or its exception ends
\* verifyCitations as well
Finish(c, call, sent, outcome) ==
  /\ calls' = [calls EXCEPT ![c] =
                 IF outcome.threw THEN [call EXCEPT !.pc = "thrown"]
                 ELSE [call EXCEPT !.pc = "loop", !.i = @ + 1,
                                   !.results = Append(@, outcome.result)]]
  /\ requests' = sent
  /\ UNCHANGED lastRequestTime

\* the citation a call is verifying
Current(call) == call.input[call.i + 1]

\* line 317 up to the first await of verifyCitation, lines 173-189
VerifyNextCitation(c) ==
  /\ calls[c].pc = "loop"
  /\ calls[c].i < Len(calls[c].input)
  /\ \E call \in {[calls[c] EXCEPT !.answers = <<>>]} :
     \E citation \in {Current(call)} :
     \E formatValidation \in {validateCitationFormat(citation)} :
       IF ~formatValidation.valid
       THEN Finish(c, call, requests,
                   [threw |-> FALSE,
                    result |-> FormatErrorResult(citation, formatValidation.issues)])
       ELSE StartRequest(c, call, requests, "delay1", "fetch1")
  /\ UNCHANGED <<now, service>>
  /\ UNCHANGED extractorVars
  /\ UNCHANGED callerVars

\* line 325
VerifyCitationsReturns(c) ==
  /\ calls[c].pc = "loop"
  /\ calls[c].i = Len(calls[c].input)
  /\ calls' = [calls EXCEPT ![c].pc = "returned"]
  /\ UNCHANGED <<now, lastRequestTime, requests, service>>
  /\ UNCHANGED extractorVars
  /\ UNCHANGED callerVars

\* the setTimeout of line 46 fires, not before it is due: lines 50-51
DelayElapses(c) ==
  /\ calls[c].pc \in {"delay1", "delay2"}
  /\ now >= calls[c].due
  /\ calls' = [calls EXCEPT ![c].pc = IF @ = "delay1" THEN "fetch1" ELSE "fetch2"]
  /\ lastRequestTime' = now
  /\ requests' =
       Append(requests, NewRequest(c, calls[c], IF calls[c].pc = "delay1" THEN "structured"
                                                ELSE "components"))
  /\ UNCHANGED <<now, service>>
  /\ UNCHANGED extractorVars
  /\ UNCHANGED callerVars

\* the structured query is answered: lines 81-92, then lines 189-194 and either
\* the components query or the rest of verifyCitation
StructuredResponse(c) ==
  /\ calls[c].pc = "fetch1"
  /\ \E response \in service :
       \E call \in {[calls[c] EXCEPT !.answers = Append(@, response)]} :
       \E searchResult \in {searchOutcome(response)} :
         IF NeedsFallback(searchResult)
         THEN StartRequest(c, call, Settled(requests, c), "delay2", "fetch2")
         ELSE \E outcome \in {Evaluate(Current(call), searchResult)} :
                Finish(c, call, Settled(requests, c), outcome)
  /\ UNCHANGED <<now, service>>
  /\ UNCHANGED extractorVars
  /\ UNCHANGED callerVars

\* the components query is answered: lines 103-112, then lines 196-306
ComponentsResponse(c) ==
  /\ calls[c].pc = "fetch2"
  /\ \E response \in service :
       \E call \in {[calls[c] EXCEPT !.answers = Append(@, response)]} :
       \E outcome \in {Evaluate(Current(call), searchOutcome(response))} :
         Finish(c, call, Settled(requests, c), outcome)
  /\ UNCHANGED <<now, service>>
  /\ UNCHANGED extractorVars
  /\ UNCHANGED callerVars

\* time passes while a call awaits: a response, up to MaxClock, or the end of a
\* delay (between awaits the code runs on without a pause)
Tick ==
  /\ \/ now < MaxClock /\ \E c \in Callers : calls[c].pc \in {"fetch1", "fetch2"}
     \/ \E c \in Callers : calls[c].pc \in {"delay1", "delay2"} /\ calls[c].due > now
  /\ now' = now + TickMs
  /\ UNCHANGED <<calls, lastRequestTime, requests, service>>
  /\ UNCHANGED extractorVars
  /\ UNCHANGED callerVars

VerifyNext ==
  \/ \E c \in Callers : VerifyNextCitation(c)
  \/ \E c \in Callers : VerifyCitationsReturns(c)
  \/ \E c \in Callers : DelayElapses(c)
  \/ \E c \in Callers : StructuredResponse(c)
  \/ \E c \in Callers : ComponentsResponse(c)
  \/ Tick

SpecVerify == VerifyInit /\ [][VerifyNext]_vars

(***************************************************************************)
(* Functions called on their own: the argument is drawn, the function is   *)
(* applied to it once.                                                     *)
(***************************************************************************)
\* nothing has been returned yet
Pending == [pending |-> TRUE]

Returned(value) == [pending |-> FALSE, value |-> value]

\* the field values of the citations handed to validateCitationFormat
ValidatorVolumes ==
  { Undefined, <<"0">>, <<"1">>, <<"2","0","0","0">>, <<"2","0","0","1">>, <<"a","b","c">> }

ValidatorPages ==
  { Undefined, <<"1">>, <<"1","0","0","0","0">>, <<"1","0","0","0","1">> }

ValidatorYears ==
  { Undefined, <<"1","7","8","8">>, <<"1","7","8","9">>, <<"2","0","2","6">>,
    <<"2","0","2","7">> }

ValidatorReporters ==
  { <<"U",".","S",".">>,
    <<"F","."," "," ","S","u","p","p",".">>,
    <<"u",".","s",".">>,
    <<"X",".","Y",".">>,
    <<"c","o","n","s","t","r","u","c","t","o","r">> }

\* a Citation (src/lib/types.ts) with these four fields
CitationOf(volume, reporter, page, year) ==
  [raw |-> Str(volume) \o <<" ">> \o reporter \o <<" ">> \o Str(page),
   caseName |-> Undefined,
   volume |-> volume, reporter |-> reporter, page |-> page,
   court |-> Undefined, year |-> year,
   startIndex |-> 0,
   endIndex |-> Len(Str(volume)) + Len(reporter) + Len(Str(page)) + 2]

ValidatorCitations ==
  { CitationOf(v, r, p, y) :
      v \in ValidatorVolumes, r \in ValidatorReporters, p \in ValidatorPages,
      y \in ValidatorYears }

\* the other variables while a function is called on its own
NoProgram ==
  /\ text = <<>>
  /\ phase = "returned"
  /\ lastIndex = 0
  /\ citations = <<>>
  /\ seen = {}
  /\ calls = [c \in Callers |-> NewCall(<<>>)]
  /\ now = Epoch
  /\ lastRequestTime = 0
  /\ requests = <<>>
  /\ service = {}
  /\ cli = NoCli
  /\ history = <<>>

ValidateInit ==
  /\ argument \in ValidatorCitations
  /\ returned = Pending
  /\ NoProgram

\* validateCitationFormat(citation), lines 155-189
ValidateCitation ==
  /\ returned = Pending
  /\ returned' = Returned(validateCitationFormat(argument))
  /\ UNCHANGED <<argument, cli, history>>
  /\ UNCHANGED extractorVars
  /\ UNCHANGED verifierVars

SpecValidate == ValidateInit /\ [][ValidateCitation]_vars

(***************************************************************************)
(* One verifyCitations call on its own: the batch of the command line tool.*)
(***************************************************************************)
MaxBatch == 3

\* a service that refuses, finds nothing or finds the one case
BatchResponses ==
  BriefResponses \cup {[kind |-> "json", body |-> [count |-> 0, results |-> <<>>]]}

BatchInit ==
  /\ \E input \in ListsOf({RoeCitation, OddCitation}, MaxBatch) :
       calls = [c \in Callers |-> NewCall(IF c = "first" THEN input ELSE <<>>)]
  /\ service = BatchResponses
  /\ now = Epoch
  /\ lastRequestTime = 0
  /\ requests = <<>>
  /\ text = <<>>
  /\ phase = "returned"
  /\ lastIndex = 0
  /\ citations = <<>>
  /\ seen = {}
  /\ NoCaller

SpecBatch == BatchInit /\ [][VerifyNext]_vars

(***************************************************************************)
(* extractCitations called again and again by one process.                 *)
(***************************************************************************)
MaxCalls == 3

\* the texts of these calls: one fragment each, or none
RepeatTexts == TextsOf(1)

RepeatInit ==
  /\ text \in RepeatTexts
  /\ phase = "full"
  /\ lastIndex = 0
  /\ citations = <<>>
  /\ seen = {}
  /\ calls = [c \in Callers |-> NewCall(<<>>)]
  /\ now = Epoch
  /\ lastRequestTime = 0
  /\ requests = <<>>
  /\ service = {}
  /\ NoCaller

\* a next call whose set of keys is the one the call before left behind
CallAgainWithOldKeys ==
  /\ phase = "returned"
  /\ Len(history) < MaxCalls - 1
  /\ history' = Append(history, [text |-> text, citations |-> citations])
  /\ text' \in RepeatTexts
  /\ phase' = "full"
  /\ lastIndex' = 0
  /\ citations' = <<>>
  /\ UNCHANGED <<seen, cli, argument, returned>>
  /\ UNCHANGED verifierVars

\* the caller keeps the list returned (line 111) and calls extractCitations on
\* another text: lines 41-46 make a new array, a new set and a new pattern
\* object, whose lastIndex is 0
CallAgain ==
  /\ phase = "returned"
  /\ Len(history) < MaxCalls - 1
  /\ history' = Append(history, [text |-> text, citations |-> citations])
  /\ text' \in RepeatTexts
  /\ phase' = "full"
  /\ lastIndex' = 0
  /\ citations' = <<>>
  /\ seen' = {}
  /\ UNCHANGED <<cli, argument, returned>>
  /\ UNCHANGED verifierVars

RepeatNext == ExtractNext \/ CallAgain

SpecRepeat == RepeatInit /\ [][RepeatNext]_vars

(***************************************************************************)
(* The report (src/lib/report.ts).                                         *)
(***************************************************************************)
MaxReported == 4

\* results.filter(r => r.status === status).length
CountOf(results, status) ==
  Cardinality({k \in DOMAIN results : results[k].status = status})

\* a report that leaves the failed lookups uncounted
generateReportWithoutApiErrors(documentName, results) ==
  [documentName |-> documentName,
   totalCitations |-> Len(results),
   verified |-> CountOf(results, "verified"),
   notFound |-> CountOf(results, "not_found"),
   partialMatches |-> CountOf(results, "partial_match"),
   formatErrors |-> CountOf(results, "format_error"),
   apiErrors |-> 0,
   results |-> results,
   processedAt |-> now]

\* lines 4-25; processedAt is the instant, its ISO spelling is left out
generateReport(documentName, results) ==
  [documentName |-> documentName,
   totalCitations |-> Len(results),
   verified |-> CountOf(results, "verified"),
   notFound |-> CountOf(results, "not_found"),
   partialMatches |-> CountOf(results, "partial_match"),
   formatErrors |-> CountOf(results, "format_error"),
   apiErrors |-> CountOf(results, "api_error"),
   results |-> results,
   processedAt |-> now]

\* one result of each status, as verifyCitation returns them
ReportedResults ==
  { Classify(RoeCitation, RoeCase, 100, <<>>),
    Classify(RoeCitation, OtherNameCase, 50, <<>>),
    NoResultsResult(ShortCitation),
    FormatErrorResult(OddCitation, validateCitationFormat(OddCitation).issues),
    ApiErrorResult(RoeCitation) }

ReportInit ==
  /\ \E results \in ListsOf(ReportedResults, MaxReported) :
       argument = [documentName |-> "brief.txt", results |-> results]
  /\ returned = Pending
  /\ NoProgram

GenerateReport ==
  /\ returned = Pending
  /\ returned' = Returned(generateReport(argument.documentName, argument.results))
  /\ UNCHANGED <<argument, cli, history>>
  /\ UNCHANGED extractorVars
  /\ UNCHANGED verifierVars

SpecReport == ReportInit /\ [][GenerateReport]_vars

(***************************************************************************)
(* The command line (src/cli.ts).                                          *)
(***************************************************************************)
MaxArgs == 3

DocumentPath == <<"d","/","b",".","t","x","t">>

ExtractOnlyFlag == <<"-","-","e","x","t","r","a","c","t","-","o","n","l","y">>

JsonWord == <<"j","s","o","n">>

\* the words a command line is made of
ArgTokens ==
  {DocumentPath, ExtractOnlyFlag, <<"-","o">>, <<"-","f">>, JsonWord, <<"-","h">>}

Argvs == ListsOf(ArgTokens, MaxArgs)

\* args[i], undefined past the end
ArgAt(args, i) == IF i \in DOMAIN args THEN args[i] ELSE Undefined

\* lines 69-88, from args[i] on; an invalid format ends the process with code 1
RECURSIVE parseArgsFrom(_, _, _)
parseArgsFrom(args, i, result) ==
  IF i > Len(args) THEN result
  ELSE LET arg == args[i]
       IN IF arg \in {<<"-","-","h","e","l","p">>, <<"-","h">>}
          THEN parseArgsFrom(args, i + 1, [result EXCEPT !.help = TRUE])
          ELSE IF arg \in {<<"-","-","o","u","t","p","u","t">>, <<"-","o">>}
          THEN parseArgsFrom(args, i + 2, [result EXCEPT !.output = ArgAt(args, i + 1)])
          ELSE IF arg \in {<<"-","-","f","o","r","m","a","t">>, <<"-","f">>}
          THEN LET format == ArgAt(args, i + 1)
               IN IF format \in {<<"t","e","x","t">>,
                                 <<"m","a","r","k","d","o","w","n">>, JsonWord}
                  THEN parseArgsFrom(args, i + 2, [result EXCEPT !.format = format])
                  ELSE [exit |-> 1]
          ELSE IF arg = ExtractOnlyFlag
          THEN parseArgsFrom(args, i + 1, [result EXCEPT !.extractOnly = TRUE])
          ELSE IF (arg = <<>> \/ arg[1] # "-") /\ result.file = <<>>
          THEN parseArgsFrom(args, i + 1, [result EXCEPT !.file = arg])
          ELSE parseArgsFrom(args, i + 1, result)

\* lines 61-92; output is undefined until an option sets it
parseArgs(args) ==
  parseArgsFrom(args, 1,
                [file |-> <<>>, output |-> Undefined, format |-> <<"t","e","x","t">>,
                 extractOnly |-> FALSE, help |-> FALSE])

\* path.basename of a path without a trailing separator
basename(p) ==
  LET slashes == {k \in DOMAIN p : p[k] = "/"}
  IN IF slashes = {} THEN p ELSE SubSeq(p, Greatest(slashes) + 1, Len(p))

\* if (args.output): undefined and the empty word are falsy
HasOutput(args) == args.output \notin {Undefined, <<>>}

\* the documents a run may read: one fragment, or nothing
CliTexts == TextsOf(1)

\* a service that refuses, finds nothing, finds the one case, or answers with
\* a body that lacks its results
CliResponses ==
  BriefResponses \cup {[kind |-> "json", body |-> [count |-> 0, results |-> <<>>]],
                       [kind |-> "json", body |-> [count |-> 1]]}

\* process.exit(code), after which nothing runs
Exited(state, code) == [state EXCEPT !.pc = "exited", !.code = code]

\* a run that verifies although it was told to extract only
AfterExtractionVerifying(args, found) ==
  IF Len(found) = 0 THEN "nothing"
  ELSE "verify"

\* lines 137 and 144: what main does with the extracted citations
AfterExtraction(args, found) ==
  IF Len(found) = 0 THEN "nothing"
  ELSE IF args.extractOnly THEN "list"
  ELSE "verify"

\* lines 208-214
ExitCodeOf(report) ==
  IF report.notFound > 0 \/ report.formatErrors > 0 THEN 2 ELSE 0

\* lines 208-214: the last words of a run that verified
LastWords(report) ==
  IF report.notFound > 0 \/ report.formatErrors > 0 THEN "need manual review"
  ELSE "All citations verified successfully."

CliInit ==
  /\ \E argv \in Argvs : cli = [pc |-> "main", argv |-> argv, code |-> -1]
  /\ text = <<>>
  /\ phase = "returned"
  /\ lastIndex = 0
  /\ citations = <<>>
  /\ seen = {}
  /\ calls = [c \in Callers |-> NewCall(<<>>)]
  /\ now = Epoch
  /\ lastRequestTime = 0
  /\ requests = <<>>
  /\ service = CliResponses
  /\ argument = <<>>
  /\ returned = <<>>
  /\ history = <<>>

\* lines 101-111: the arguments are parsed, then main awaits fs.access
CliStart ==
  /\ cli.pc = "main"
  /\ \E args \in {parseArgs(cli.argv)} :
       cli' = IF "exit" \in DOMAIN args THEN Exited(cli, 1)
              ELSE IF args.help \/ args.file = <<>>
              THEN Exited(cli, IF args.help THEN 0 ELSE 1)
              ELSE [pc |-> "access", args |-> args, code |-> -1]
  /\ UNCHANGED <<argument, returned, history>>
  /\ UNCHANGED extractorVars
  /\ UNCHANGED verifierVars

\* lines 110-125: the file is there or it is not; then main awaits its text
CliFileChecked ==
  /\ cli.pc = "access"
  /\ \E found \in BOOLEAN :
       cli' = IF found THEN [cli EXCEPT !.pc = "read"] ELSE Exited(cli, 1)
  /\ UNCHANGED <<argument, returned, history>>
  /\ UNCHANGED extractorVars
  /\ UNCHANGED verifierVars

\* lines 125-134: the document cannot be read, or extractCitations is called on
\* its text
CliTextRead ==
  /\ cli.pc = "read"
  /\ \/ /\ cli' = Exited(cli, 1)
        /\ UNCHANGED extractorVars
     \/ /\ text' \in CliTexts
        /\ phase' = "full"
        /\ lastIndex' = 0
        /\ citations' = <<>>
        /\ seen' = {}
        /\ cli' = [cli EXCEPT !.pc = "extract"]
  /\ UNCHANGED <<argument, returned, history>>
  /\ UNCHANGED verifierVars

\* extractCitations runs, line 134
CliExtracts ==
  /\ cli.pc = "extract"
  /\ ExtractNext

\* lines 137-180: nothing was found, or the list is put out, or verifyCitations
\* is called on it; a list or a report that goes to a file is awaited
CliCitationsExtracted ==
  /\ cli.pc = "extract"
  /\ phase = "returned"
  /\ \E step \in {AfterExtraction(cli.args, citations)} :
       /\ cli' = IF step = "nothing" THEN Exited(cli, 0)
                 ELSE IF step = "list"
                 THEN IF cli.args.format = JsonWord /\ HasOutput(cli.args)
                      THEN [cli EXCEPT !.pc = "writeList"]
                      ELSE Exited(cli, 0)
                 ELSE [cli EXCEPT !.pc = "verify"]
       /\ calls' = IF step = "verify"
                   THEN [calls EXCEPT !["first"] = NewCall(citations)]
                   ELSE calls
  /\ UNCHANGED <<now, lastRequestTime, requests, service>>
  /\ UNCHANGED <<argument, returned, history>>
  /\ UNCHANGED extractorVars

\* verifyCitations runs, line 180
CliVerifies ==
  /\ cli.pc = "verify"
  /\ \/ VerifyNextCitation("first")
     \/ VerifyCitationsReturns("first")
     \/ DelayElapses("first")
     \/ StructuredResponse("first")
     \/ ComponentsResponse("first")
     \/ Tick

\* lines 184-214: the report is made and put out, and its counts decide the
\* exit code
CliVerified ==
  /\ cli.pc = "verify"
  /\ calls["first"].pc = "returned"
  /\ \E report \in {generateReport(basename(cli.args.file), calls["first"].results)} :
       cli' = IF HasOutput(cli.args)
              THEN [pc |-> "writeReport", args |-> cli.args, code |-> -1,
                    report |-> report]
              ELSE [pc |-> "exited", args |-> cli.args, code |-> ExitCodeOf(report),
                    report |-> report, said |-> LastWords(report)]
  /\ UNCHANGED <<argument, returned, history>>
  /\ UNCHANGED extractorVars
  /\ UNCHANGED verifierVars

\* lines 217-220: what verifyCitations throws is fatal
CliVerifyThrew ==
  /\ cli.pc = "verify"
  /\ calls["first"].pc = "thrown"
  /\ cli' = Exited(cli, 1)
  /\ UNCHANGED <<argument, returned, history>>
  /\ UNCHANGED extractorVars
  /\ UNCHANGED verifierVars

\* fs.writeFile is over, lines 162 and 202: it failed, which is fatal, or the
\* run goes on to its exit
CliWritten ==
  /\ cli.pc \in {"writeList", "writeReport"}
  /\ \E written \in BOOLEAN :
       cli' = IF ~written THEN Exited(cli, 1)
              ELSE IF cli.pc = "writeList" THEN Exited(cli, 0)
              ELSE [pc |-> "exited", args |-> cli.args, code |-> ExitCodeOf(cli.report),
                    report |-> cli.report, said |-> LastWords(cli.report)]
  /\ UNCHANGED <<argument, returned, history>>
  /\ UNCHANGED extractorVars
  /\ UNCHANGED verifierVars

CliNext ==
  \/ CliStart
  \/ CliFileChecked
  \/ CliTextRead
  \/ CliExtracts
  \/ CliCitationsExtracted
  \/ CliVerifies
  \/ CliVerified
  \/ CliVerifyThrew
  \/ CliWritten

SpecCli == CliInit /\ [][CliNext]_vars

(***************************************************************************)
(* calculateConfidence on its own (src/lib/verifier.ts).                   *)
(***************************************************************************)
MaxStrings == 3

\* the citation "410 U.S. 113" as the short pass returns it
BareRoeCitation ==
  [raw |-> <<"4","1","0"," ","U",".","S","."," ","1","1","3">>,
   caseName |-> Undefined,
   volume |-> <<"4","1","0">>, reporter |-> <<"U",".","S",".">>, page |-> <<"1","1","3">>,
   court |-> Undefined, year |-> Undefined,
   startIndex |-> 0, endIndex |-> 12]

ScoredCitations == {RoeCitation, BareRoeCitation, ShortCitation}

\* citation strings of a candidate: the cited one, the cited one in lower case,
\* one that holds its volume and its page only, and another case's
ScoredStrings ==
  { <<"4","1","0"," ","U",".","S","."," ","1","1","3">>,
    <<"4","1","0"," ","u",".","s","."," ","1","1","3">>,
    <<"1","1","3"," ","F","."," ","4","1","0">>,
    <<"9","3"," ","S","."," ","C","t","."," ","7","0","5">> }

\* candidates with every list of up to MaxStrings of these strings
ScoredCandidates ==
  {[base EXCEPT !.citation = strings] :
     base \in {RoeCase, PartialCase}, strings \in ListsOf(ScoredStrings, MaxStrings)}

ScoreInit ==
  /\ \E citation \in ScoredCitations : \E result \in ScoredCandidates :
       argument = [citation |-> citation, result |-> result]
  /\ returned = Pending
  /\ NoProgram

CalculateConfidence ==
  /\ returned = Pending
  /\ returned' = Returned(calculateConfidence(argument.citation, argument.result))
  /\ UNCHANGED <<argument, cli, history>>
  /\ UNCHANGED extractorVars
  /\ UNCHANGED verifierVars

SpecScore == ScoreInit /\ [][CalculateConfidence]_vars

(***************************************************************************)
(* The evaluation of an answered lookup on its own: verifyCitation from    *)
(* line 218 on (src/lib/verifier.ts).                                      *)
(***************************************************************************)
MaxEvaluated == 3

\* a second case with the citation string and the year of Roe under another
\* name: for RoeCitation it scores what OtherNameCase scores
TwinCase ==
  [OtherNameCase EXCEPT
     !.absolute_url = <<"/","o","p","i","n","i","o","n","/","4","/">>,
     !.case_name = <<"D","o","e"," ","v","."," ","B","o","l","t","o","n">>]

\* the citation string of Roe under another name and in another decade: for
\* RoeCitation it scores 50
LaterCase ==
  [OtherNameCase EXCEPT
     !.absolute_url = <<"/","o","p","i","n","i","o","n","/","5","/">>,
     !.date_filed = <<"1","9","8","0","-","0","1","-","0","1">>]

EvaluatedCandidates == CandidatePool \cup {TwinCase, LaterCase}

\* bodies with count > 0: the candidates listed, or none
EvaluatedBodies ==
  {[count |-> IF rs = <<>> THEN 1 ELSE Len(rs), results |-> rs] :
     rs \in ListsOf(EvaluatedCandidates, MaxEvaluated)}

EvaluateInit ==
  /\ \E citation \in ScoredCitations : \E body \in EvaluatedBodies :
       argument = [citation |-> citation, searchResult |-> body]
  /\ returned = Pending
  /\ NoProgram

\* lines 218-306 on the answer of the last query
EvaluateAnswer ==
  /\ returned = Pending
  /\ returned' =
       Returned(EvaluateResults(argument.citation, argument.searchResult.results,
                  Confidences(argument.citation, argument.searchResult.results)))
  /\ UNCHANGED <<argument, cli, history>>
  /\ UNCHANGED extractorVars
  /\ UNCHANGED verifierVars

SpecEvaluate == EvaluateInit /\ [][EvaluateAnswer]_vars

(***************************************************************************)
(* calculateRiskScore on its own (src/lib/report.ts).                      *)
(***************************************************************************)
MaxVerified == 10

MaxOfOthers == 2

\* n times the result x
RECURSIVE Times(_, _)
Times(x, n) == IF n = 0 THEN <<>> ELSE <<x>> \o Times(x, n - 1)

\* the result of ReportedResults with this status
ResultWith(status) == CHOOSE r \in ReportedResults : r.status = status

\* results with so many of each status
ResultsWith(verified, notFound, partialMatches, formatErrors, apiErrors) ==
  Times(ResultWith("verified"), verified)
    \o Times(ResultWith("not_found"), notFound)
    \o Times(ResultWith("partial_match"), partialMatches)
    \o Times(ResultWith("format_error"), formatErrors)
    \o Times(ResultWith("api_error"), apiErrors)

PowersOfTwo == {1, 2, 4, 8, 16, 32}

\* lines 125-128: Math.round of verified/total*100 - partialRatio*15. The exact
\* value is q/total with q = 100*verified - 15*partialMatches, and Math.round
\* rounds a half upwards. The quotients are doubles: where the exact value lies
\* halfway between two integers and the ratios have no finite binary expansion,
\* the computed value may fall just below the half, and the lower integer comes
\* out
RoundedScores(report) ==
  LET total == report.totalCitations
      q == 100 * report.verified - 15 * report.partialMatches
      halfUp == (2 * q + total) \div (2 * total)
      halfway == (2 * q + total) % (2 * total) = 0
  IN IF halfway /\ total \notin PowersOfTwo THEN {halfUp - 1, halfUp} ELSE {halfUp}

\* Math.max and Math.min
Max(a, b) == IF a >= b THEN a ELSE b

\* lines 110-158, with the rounded score of lines 125-128 given
calculateRiskScore(report, score) ==
  IF report.totalCitations = 0
  THEN [score |-> 0, level |-> "LOW",
        recommendation |-> "No citations found to verify."]
  ELSE LET unverified == report.notFound + report.formatErrors
       IN IF report.notFound = 0 /\ report.formatErrors = 0
          THEN [score |-> Max(score, 85), level |-> "LOW",
                recommendation |-> "All citations verified. Document appears safe to file."]
          ELSE IF 10 * unverified <= report.totalCitations
          THEN [score |-> score, level |-> "MEDIUM",
                recommendation |-> "citation(s) need manual verification before filing."]
          ELSE IF 10 * unverified <= 3 * report.totalCitations
          THEN [score |-> score, level |-> "HIGH",
                recommendation |-> "Significant number of unverified citations. Thorough review required before filing."]
          ELSE [score |-> Min(score, 25), level |-> "CRITICAL",
                recommendation |-> "Majority of citations could not be verified. Do not file without comprehensive manual review."]

\* the reports of generateReport for results with up to MaxVerified verified
\* citations and up to MaxOfOthers of every other status
RiskInit ==
  /\ NoProgram
  /\ \E verified \in 0..MaxVerified :
       \E notFound \in 0..MaxOfOthers : \E partialMatches \in 0..MaxOfOthers :
         \E formatErrors \in 0..MaxOfOthers : \E apiErrors \in 0..MaxOfOthers :
           argument = generateReport("brief.txt",
                        ResultsWith(verified, notFound, partialMatches, formatErrors, apiErrors))
  /\ returned = Pending

CalculateRiskScore ==
  /\ returned = Pending
  /\ \E score \in (IF argument.totalCitations = 0 THEN {0} ELSE RoundedScores(argument)) :
       returned' = Returned(calculateRiskScore(argument, score))
  /\ UNCHANGED <<argument, cli, history>>
  /\ UNCHANGED extractorVars
  /\ UNCHANGED verifierVars

SpecRisk == RiskInit /\ [][CalculateRiskScore]_vars

\* verifyCitations under a scheduler that runs every continuation that is ready
\* and a service that settles every fetch: the event loop of the runtime
FairVerify ==
  /\ VerifyInit
  /\ [][VerifyNext]_vars
  /\ WF_vars(Tick)
  /\ \A c \in Callers :
       /\ WF_vars(VerifyNextCitation(c))
       /\ WF_vars(VerifyCitationsReturns(c))
       /\ WF_vars(DelayElapses(c))
       /\ WF_vars(StructuredResponse(c))
       /\ WF_vars(ComponentsResponse(c))

(***************************************************************************)
(* The properties.                                                         *)
(***************************************************************************)
\* the latest verifyCitation of caller c is over and got as far as the service
Answered(c) ==
  /\ calls[c].pc \in {"loop", "returned"}
  /\ calls[c].i > 0
  /\ calls[c].answers # <<>>

LastCitation(c) == calls[c].input[calls[c].i]

LastResult(c) == calls[c].results[calls[c].i]

LastAnswer(c) == calls[c].answers[Len(calls[c].answers)]

\* a body that is no JSON, or JSON without count or without results
Malformed(response) ==
  \/ response.kind = "unparseable"
  \/ /\ response.kind = "json"
     /\ ~({"count", "results"} \subseteq DOMAIN response.body)

\* the query failed at the transport or HTTP level
FailedInTransit(response) == response.kind \in {"thrown", "http_error"}

\* the query succeeded with count 0
FoundNothing(response) ==
  /\ response.kind = "json"
  /\ {"count", "results"} \subseteq DOMAIN response.body
  /\ response.body.count = 0

\* C1: no two citations of the returned list overlap: of any two, one ends
\* where or before the other starts
C1_NoOverlap ==
  phase = "returned" =>
    \A i, j \in DOMAIN citations :
      i < j => \/ citations[i].endIndex <= citations[j].startIndex
               \/ citations[j].endIndex <= citations[i].startIndex

C3_MalformedIsApiError ==
  \A c \in Callers :
    /\ calls[c].pc # "thrown"
    /\ (Answered(c) /\ Malformed(LastAnswer(c)))
         => LastResult(c).status = "api_error"

\* C4: any two requests sent to the service are at least MIN_REQUEST_INTERVAL
\* milliseconds apart, whichever calls sent them
C4_RequestsSpaced ==
  \A i, j \in DOMAIN requests :
    i < j => requests[j].at - requests[i].at >= MIN_REQUEST_INTERVAL

\* C5: the step that takes up a citation the validator rejects ends that
\* verifyCitation with status format_error, confidence 0 and the validator's
\* issues as warnings, sends no request and leaves lastRequestTime as it was
C5_InvalidIsFormatError ==
  [][\A c \in Callers :
       (/\ calls[c].pc = "loop"
        /\ calls[c].i < Len(calls[c].input)
        /\ ~validateCitationFormat(Current(calls[c])).valid
        /\ calls'[c] # calls[c])
         => /\ calls'[c].pc = "loop"
            /\ calls'[c].i = calls[c].i + 1
            /\ Len(calls'[c].results) = calls[c].i + 1
            /\ LET result == calls'[c].results[calls[c].i + 1]
               IN /\ result.citation = Current(calls[c])
                  /\ result.status = "format_error"
                  /\ result.confidence = 0
                  /\ result.warnings = validateCitationFormat(Current(calls[c])).issues
            /\ requests' = requests
            /\ lastRequestTime' = lastRequestTime]_vars

C5_FormatErrorReturned ==
  \E c \in Callers :
    /\ calls[c].i > 0
    /\ calls[c].pc = "loop"
    /\ LastResult(c).status = "format_error"
    /\ Len(LastResult(c).warnings) >= 2
    /\ requests = <<>>
    /\ lastRequestTime = 0

\* the best of the confidences of the candidates of the last answer
BestOfLastAnswer(c) ==
  LET results == LastAnswer(c).body.results
  IN Greatest({0} \cup {calculateConfidence(LastCitation(c), results[k]) :
                          k \in DOMAIN results})

\* the last answer is a lookup that succeeded with candidates
HasCandidates(c) ==
  /\ Answered(c)
  /\ LastAnswer(c).kind = "json"
  /\ {"count", "results"} \subseteq DOMAIN LastAnswer(c).body
  /\ LastAnswer(c).body.count # 0
  /\ LastAnswer(c).body.results # <<>>

\* C6: after a lookup that succeeded with a candidate scoring above 0, the
\* confidence of the result is the best confidence c, and the status is verified
\* for c >= 70, partial_match for 40 <= c < 70 and not_found for c < 40
C6_StatusByThreshold ==
  \A c \in Callers :
    HasCandidates(c) =>
      LET best == BestOfLastAnswer(c)
      IN best > 0 =>
           /\ LastResult(c).confidence = best
           /\ LastResult(c).status =
                IF best >= 70 THEN "verified"
                ELSE IF best >= 40 THEN "partial_match"
                ELSE "not_found"

C6_VerifiedAtSeventy ==
  \E c \in Callers :
    /\ HasCandidates(c)
    /\ BestOfLastAnswer(c) = 70
    /\ LastResult(c).status = "verified"

\* C7: when the structured query and the components query both fail at the
\* transport or HTTP level, the result is api_error with confidence 0
C7_BothFailIsApiError ==
  \A c \in Callers :
    (/\ Answered(c)
     /\ Len(calls[c].answers) = 2
     /\ FailedInTransit(calls[c].answers[1])
     /\ FailedInTransit(calls[c].answers[2]))
      => /\ LastResult(c).status = "api_error"
         /\ LastResult(c).confidence = 0

C7_ThrownThenRefused ==
  \E c \in Callers :
    /\ Answered(c)
    /\ Len(calls[c].answers) = 2
    /\ calls[c].answers[1].kind = "thrown"
    /\ calls[c].answers[2].kind = "http_error"
    /\ LastResult(c).status = "api_error"

\* C8: when the structured query and the components query both succeed with
\* count 0, the result is not_found with confidence 0 and without matchedCase
C8_BothEmptyIsNotFound ==
  \A c \in Callers :
    (/\ Answered(c)
     /\ Len(calls[c].answers) = 2
     /\ FoundNothing(calls[c].answers[1])
     /\ FoundNothing(calls[c].answers[2]))
      => /\ LastResult(c).status = "not_found"
         /\ LastResult(c).confidence = 0
         /\ "matchedCase" \notin DOMAIN LastResult(c)

C8_TwoEmptyAnswers ==
  \E c \in Callers :
    /\ Answered(c)
    /\ Len(calls[c].answers) = 2
    /\ FoundNothing(calls[c].answers[1])
    /\ FoundNothing(calls[c].answers[2])
    /\ LastResult(c).status = "not_found"

\* C9: a result carries matchedCase or courtListenerUrl only with status
\* verified or partial_match
C9_MatchOnlyWhenMatched ==
  \A c \in Callers :
    \A k \in DOMAIN calls[c].results :
      ("matchedCase" \in DOMAIN calls[c].results[k]
         \/ "courtListenerUrl" \in DOMAIN calls[c].results[k])
        => calls[c].results[k].status \in {"verified", "partial_match"}

C9_LowConfidenceCandidate ==
  \E c \in Callers :
    /\ HasCandidates(c)
    /\ BestOfLastAnswer(c) \in 1..39
    /\ LastResult(c).status = "not_found"
    /\ "matchedCase" \notin DOMAIN LastResult(c)
    /\ "courtListenerUrl" \notin DOMAIN LastResult(c)

\* C10: the confidence of every result, and the confidence calculateConfidence
\* gives to every candidate received, is an integer from 0 to 100
C10_ConfidenceInRange ==
  \A c \in Callers :
    /\ \A k \in DOMAIN calls[c].results :
         calls[c].results[k].confidence \in 0..100
    /\ HasCandidates(c) =>
         \A k \in DOMAIN LastAnswer(c).body.results :
           calculateConfidence(LastCitation(c), LastAnswer(c).body.results[k]) \in 0..100

C10_FullConfidence ==
  \E c \in Callers :
    /\ HasCandidates(c)
    /\ BestOfLastAnswer(c) = 100
    /\ LastResult(c).confidence = 100

\* s is a number written in digits, and that number is from lo to hi
NumberWithin(s, lo, hi) ==
  /\ s # Undefined
  /\ s # <<>>
  /\ \A k \in DOMAIN s : s[k] \in DigitCh
  /\ parseInt(s) >= lo
  /\ parseInt(s) <= hi

\* the four checks of the validator, as the specification words them
VolumeInRange(citation) == NumberWithin(citation.volume, 1, 2000)

PageInRange(citation) == NumberWithin(citation.page, 1, 10000)

YearInRange(citation) ==
  ~Truthy(citation.year) \/ NumberWithin(citation.year, 1789, currentYear)

ReporterIsKey(citation) ==
  \E k \in DOMAIN ALL_REPORTERS : ALL_REPORTERS[k] = CollapseSpaces(citation.reporter)

ViolatedChecks(citation) ==
  (IF VolumeInRange(citation) THEN 0 ELSE 1) + (IF PageInRange(citation) THEN 0 ELSE 1)
    + (IF YearInRange(citation) THEN 0 ELSE 1) + (IF ReporterIsKey(citation) THEN 0 ELSE 1)

\* C11: validateCitationFormat returns valid with no issues exactly when the
\* volume is in 1..2000, the page in 1..10000, the year absent or in
\* 1789..currentYear and the normalized reporter a key of the table; every
\* violated check adds one issue
C11_ValidIffChecksPass ==
  returned # Pending =>
    /\ returned.value.valid <=> returned.value.issues = <<>>
    /\ returned.value.valid <=> ViolatedChecks(argument) = 0
    /\ Len(returned.value.issues) = ViolatedChecks(argument)

\* C12: in a verifyCitations call that runs alone, every request is sent at
\* least MIN_REQUEST_INTERVAL milliseconds after the one before it, so that N
\* requests span at least (N - 1) times that interval
C12_BatchSpacing ==
  /\ \A k \in DOMAIN requests :
       k > 1 => requests[k].at - requests[k - 1].at >= MIN_REQUEST_INTERVAL
  /\ requests # <<>> =>
       requests[Len(requests)].at - requests[1].at
         >= (Len(requests) - 1) * MIN_REQUEST_INTERVAL

C12_ThreeCitationsTwoQueries ==
  /\ calls["first"].pc = "returned"
  /\ Len(calls["first"].input) = 3
  /\ \A i \in 1..3 : \E k \in DOMAIN requests : requests[k].i = i
  /\ \E k \in DOMAIN requests : requests[k].query = "components"
  /\ requests[Len(requests)].at - requests[1].at >= 2 * MIN_REQUEST_INTERVAL

\* the requests of caller c in the log
RequestsOf(c) == {k \in DOMAIN requests : requests[k].by = c}

\* C13: of the requests of one verifyCitations call at most one is awaiting its
\* response; they are sent in the order of the input; a request for a citation
\* is sent only when every citation before it has its result; and the
\* components query of a citation is sent only after its structured query has
\* been answered
C13_OneRequestAtATime ==
  \A c \in Callers :
    /\ Cardinality({k \in RequestsOf(c) : ~requests[k].answered}) <= 1
    /\ \A k \in RequestsOf(c) : requests[k].i <= Len(calls[c].results) + 1
    /\ \A j, k \in RequestsOf(c) : j < k => requests[j].i <= requests[k].i
    /\ \A k \in RequestsOf(c) :
         requests[k].query = "components" =>
           \E j \in RequestsOf(c) :
             /\ j < k
             /\ requests[j].i = requests[k].i
             /\ requests[j].query = "structured"
             /\ requests[j].answered
    /\ \A k \in DOMAIN calls[c].results :
         calls[c].results[k].citation = calls[c].input[k]

C13_SecondCitationAfterFallback ==
  \E c \in Callers :
    /\ Len(calls[c].results) = 1
    /\ calls[c].pc = "fetch1"
    /\ \E k \in RequestsOf(c) : requests[k].i = 1 /\ requests[k].query = "components"
    /\ \E k \in RequestsOf(c) : requests[k].i = 2 /\ ~requests[k].answered

\* see 999 F.3d 999999
LongPageText ==
  <<"s","e","e"," ","9","9","9"," ","F",".","3","d"," ","9","9","9","9","9","9">>

\* C14: from the text "see 999 F.3d 999999" extractCitations returns one
\* citation whose page is the whole digit string 999999, and the validator
\* reports its page as out of range
C14_WholePageExtracted ==
  (phase = "returned" /\ text = LongPageText) =>
    /\ Len(citations) = 1
    /\ citations[1].page = <<"9","9","9","9","9","9">>
    /\ ~validateCitationFormat(citations[1]).valid
    /\ \E k \in DOMAIN validateCitationFormat(citations[1]).issues :
         validateCitationFormat(citations[1]).issues[k].msg = "Unusual page number: "

\* C15: two calls of extractCitations on the same text return the same list,
\* whatever calls were made before or between them
C15_SameTextSameList ==
  /\ \A j, k \in DOMAIN history :
       history[j].text = history[k].text => history[j].citations = history[k].citations
  /\ phase = "returned" =>
       \A k \in DOMAIN history :
         history[k].text = text => history[k].citations = citations

C15_SameTextAroundAnother ==
  /\ phase = "returned"
  /\ Len(history) = 2
  /\ history[1].text = text
  /\ history[2].text # text
  /\ citations # <<>>
  /\ history[2].citations # <<>>
  /\ history[1].citations = citations

\* C16: the report of a list of results has totalCitations equal to the length
\* of the list, the five counts add up to totalCitations, and results is the
\* list as it was given
C16_CountsAddUp ==
  returned # Pending =>
    LET report == returned.value
    IN /\ report.totalCitations = Len(argument.results)
       /\ report.verified + report.notFound + report.partialMatches
            + report.formatErrors + report.apiErrors = report.totalCitations
       /\ report.results = argument.results

C16_MixedReport ==
  /\ returned # Pending
  /\ returned.value.totalCitations = 4
  /\ returned.value.apiErrors = 2
  /\ returned.value.partialMatches = 1
  /\ returned.value.formatErrors = 1

\* the run verified and came to the exit of lines 208-214
VerifiedRunExited == cli.pc = "exited" /\ "said" \in DOMAIN cli

\* C17: a run that verified exits with code 2 whenever a result is not_found
\* or format_error, and exits with code 0, saying that all citations were
\* verified, only when every result is verified
C17_ExitCodeTellsSuccess ==
  VerifiedRunExited =>
    LET results == cli.report.results
    IN /\ (\E k \in DOMAIN results : results[k].status \in {"not_found", "format_error"})
            => cli.code = 2
       /\ cli.code = 0 => \A k \in DOMAIN results : results[k].status = "verified"

\* the half of C17 that the code keeps: not_found or format_error gives code 2
C17_ReviewNeededExitsTwo ==
  /\ VerifiedRunExited
  /\ cli.report.notFound + cli.report.formatErrors > 0
  /\ cli.code = 2

\* C18: a run whose arguments ask for extraction only never calls
\* verifyCitations and sends no request
C18_ExtractOnlyNeverVerifies ==
  ("args" \in DOMAIN cli /\ cli.args.extractOnly) =>
    /\ calls["first"] = NewCall(<<>>)
    /\ requests = <<>>
    /\ "report" \notin DOMAIN cli

C18_ListPutOut ==
  /\ cli.pc = "exited"
  /\ cli.code = 0
  /\ "args" \in DOMAIN cli
  /\ cli.args.extractOnly
  /\ Len(citations) > 0
  /\ service # {}

\* a short citation ahead of a full citation: the full pass retains the second
\* citation of this text before the short pass retains the first
ShortAheadOfFull ==
  <<"1","2"," ","U",".","S","."," ","3","4">> \o <<";"," ">> \o RoeFragment

\* C19: the list that extractCitations returns is in ascending order of
\* startIndex, whatever the order in which the two passes retained its citations
C19_SortedByStartIndex ==
  phase = "returned" =>
    \A j \in DOMAIN citations : \A k \in DOMAIN citations :
      j < k => citations[j].startIndex <= citations[k].startIndex

C19_ShortSortedAheadOfFull ==
  /\ phase = "returned"
  /\ text = ShortAheadOfFull
  /\ Len(citations) = 2
  /\ citations[1].startIndex = 0
  /\ citations[1].caseName = Undefined
  /\ citations[2].startIndex = 12
  /\ citations[2].caseName = <<"R","o","e"," ","v","."," ","W","a","d","e">>

\* the candidate's citation strings that hold the exact "volume reporter page"
\* token of the citation, in whatever case
ExactStrings(citation, result) ==
  {k \in DOMAIN result.citation :
     Includes(toLowerCase(result.citation[k]), toLowerCase(citationStr(citation)))}

\* the candidate's citation strings that hold the volume and the page
PartialStrings(citation, result) ==
  {k \in DOMAIN result.citation :
     /\ Includes(result.citation[k], citation.volume)
     /\ Includes(result.citation[k], citation.page)}

\* C20: the citation strings of the candidate add 50 to the confidence when any
\* of them holds the exact token, wherever it stands in the list, 30 when none
\* does and some string holds the volume and the page, and nothing otherwise
C20_ExactStringAnywhereScoresFifty ==
  returned # Pending =>
    LET citation == argument.citation
        result == argument.result
        fromStrings == IF ExactStrings(citation, result) # {} THEN 50
                       ELSE IF PartialStrings(citation, result) # {} THEN 30
                       ELSE 0
    IN returned.value =
         Min(100, fromStrings + CaseNameScore(citation, result)
                    + YearScore(citation, result))

\* the query handed back null: fetch rejected, the status was no success, or
\* the body was no JSON
QueryFailed(response) == response.kind \in {"thrown", "http_error", "unparseable"}

\* C21: a result of verifyCitation that followed a query is api_error exactly
\* when the last query failed: a failed fallback after an empty structured
\* answer gives api_error, and after a failed structured query an answered
\* fallback decides
C21_ApiErrorIffLastQueryFailed ==
  \A c \in Callers :
    Answered(c) =>
      (LastResult(c).status = "api_error" <=> QueryFailed(LastAnswer(c)))

C21_EmptyThenFailed ==
  \E c \in Callers :
    /\ Answered(c)
    /\ Len(calls[c].answers) = 2
    /\ FoundNothing(calls[c].answers[1])
    /\ FailedInTransit(calls[c].answers[2])
    /\ LastResult(c).status = "api_error"

\* the requests that caller c sent for its citation number i
RequestsFor(c, i) == {k \in DOMAIN requests : requests[k].by = c /\ requests[k].i = i}

\* C22: for each citation a call sends at most two requests, the structured
\* query first and the components query at most once after it, and the
\* components query is sent exactly when the structured query failed or
\* found nothing
C22_AtMostOneFallback ==
  \A c \in Callers :
    /\ \A i \in 1..Len(calls[c].input) :
         /\ Cardinality(RequestsFor(c, i)) <= 2
         /\ \A k \in RequestsFor(c, i) :
              requests[k].query =
                IF k = Least(RequestsFor(c, i)) THEN "structured" ELSE "components"
    /\ Len(calls[c].answers) <= 2
    /\ calls[c].answers # <<>> =>
         LET first == calls[c].answers[1]
             sent == RequestsFor(c, IF calls[c].pc \in {"loop", "returned"}
                                    THEN calls[c].i ELSE calls[c].i + 1)
         IN (QueryFailed(first) \/ FoundNothing(first))
              <=> (calls[c].pc = "delay2" \/ Cardinality(sent) = 2)

C22_FallbackFailedNoRetry ==
  \E c \in Callers :
    /\ Answered(c)
    /\ Len(calls[c].answers) = 2
    /\ QueryFailed(calls[c].answers[2])
    /\ Cardinality(RequestsFor(c, calls[c].i)) = 2
    /\ calls[c].pc = "returned"

\* the confidence of candidate k of the answer under evaluation
ConfidenceOf(k) ==
  calculateConfidence(argument.citation, argument.searchResult.results[k])

\* the candidates of the answer under evaluation with the highest confidence
BestCandidates ==
  LET results == argument.searchResult.results
  IN {k \in DOMAIN results : \A j \in DOMAIN results : ConfidenceOf(j) <= ConfidenceOf(k)}

\* C23: the result carries the highest confidence among the candidates and,
\* where it names a case, the first candidate with that confidence; when no
\* candidate scores above 0, or there is none, it is not_found with confidence 0
C23_BestCandidateFirstOfTies ==
  returned # Pending =>
    LET results == argument.searchResult.results
        result == returned.value
    IN IF \A k \in DOMAIN results : ConfidenceOf(k) = 0
       THEN /\ result.status = "not_found"
            /\ result.confidence = 0
            /\ "matchedCase" \notin DOMAIN result
       ELSE LET first == Least(BestCandidates)
            IN /\ result.confidence = ConfidenceOf(first)
               /\ "matchedCase" \in DOMAIN result =>
                    /\ result.matchedCase.caseName = results[first].case_name
                    /\ result.courtListenerUrl = CourtListenerUrl(results[first])

C23_TieKeepsFirst ==
  /\ returned # Pending
  /\ \E j \in BestCandidates : \E k \in BestCandidates :
       /\ j < k
       /\ argument.searchResult.results[j].case_name
            # argument.searchResult.results[k].case_name
  /\ "matchedCase" \in DOMAIN returned.value
  /\ returned.value.matchedCase.caseName
       = argument.searchResult.results[Least(BestCandidates)].case_name

\* the result under inspection carries the case-name mismatch warning
WarnsOfMismatch(result) ==
  \E k \in DOMAIN result.warnings : result.warnings[k].msg = "Case name mismatch"

\* C30: the best candidate and its confidence alone decide status, confidence
\* and matchedCase, with or without the case-name mismatch warning, and a
\* partial_match ends its warnings with the advice to verify manually
C30_MismatchOnlyWarns ==
  (returned # Pending /\ \E k \in BestCandidates : ConfidenceOf(k) > 0) =>
    LET best == argument.searchResult.results[Least(BestCandidates)]
        confidence == ConfidenceOf(Least(BestCandidates))
        result == returned.value
    IN /\ result.confidence = confidence
       /\ result.status = IF confidence >= 70 THEN "verified"
                          ELSE IF confidence >= 40 THEN "partial_match"
                          ELSE "not_found"
       /\ confidence >= 40 => result.matchedCase = MatchedCase(best)
       /\ result.status = "verified" =>
            \A k \in DOMAIN result.warnings : result.warnings[k].msg = "Case name mismatch"
       /\ result.status = "partial_match" =>
            /\ result.warnings # <<>>
            /\ result.warnings[Len(result.warnings)].msg
                 = "Low confidence match - verify manually"
            /\ \A k \in 1..(Len(result.warnings) - 1) :
                 result.warnings[k].msg = "Case name mismatch"

C30_VerifiedWithMismatch ==
  /\ returned # Pending
  /\ returned.value.status = "verified"
  /\ WarnsOfMismatch(returned.value)
  /\ returned.value.matchedCase.caseName # argument.citation.caseName

\* a partial match that carries both warnings, the mismatch first
PartialWithBothWarnings ==
  /\ returned # Pending
  /\ returned.value.status = "partial_match"
  /\ Len(returned.value.warnings) = 2
  /\ WarnsOfMismatch(returned.value)

\* the same full citation twice
RoeTwice == RoeFragment \o <<";"," ">> \o RoeFragment

\* C24: of a full citation that stands twice in the text the second occurrence
\* yields no citation of any kind: the list holds the first occurrence alone
C24_DuplicateYieldsNothing ==
  (phase = "returned" /\ text = RoeTwice) =>
    /\ Len(citations) = 1
    /\ citations[1].startIndex = 0

\* the validator's issues about the reporter of a citation
UnknownReporterIssues(citation) ==
  LET issues == validateCitationFormat(citation).issues
  IN {k \in DOMAIN issues : issues[k].msg = "Unknown reporter"}

\* C25: the reporter of every citation returned is a key of the Reporter
\* Table, so that the validator has no unknown reporter to report
C25_ReporterIsTableKey ==
  phase = "returned" =>
    \A k \in DOMAIN citations :
      /\ ReporterIsKey(citations[k])
      /\ UnknownReporterIssues(citations[k]) = {}

\* the deduplication key of a citation
KeyOf(citation) == normalizeWhitespace(citation.raw)

\* the same short citation twice
ShortTwice ==
  <<"1","2"," ","U",".","S","."," ","3","4">> \o <<";"," ">>
    \o <<"1","2"," ","U",".","S","."," ","3","4">>

\* C26: no two citations retained, in either pass, have the same key
C26_KeysDistinct ==
  \A j \in DOMAIN citations : \A k \in DOMAIN citations :
    j # k => KeyOf(citations[j]) # KeyOf(citations[k])

C26_SecondShortSkipped ==
  /\ phase = "returned"
  /\ text = ShortTwice
  /\ Len(citations) = 1
  /\ citations[1].startIndex = 0
  /\ seen = {KeyOf(citations[1])}

\* C27: once the short pass has begun the full pass does not resume, and a
\* citation that the short pass retains does not start inside a citation
\* retained before it, so not inside a full citation
C27_ShortOutsideRetained ==
  [][phase = "short" =>
       /\ phase' # "full"
       /\ Len(citations') > Len(citations) =>
            LET new == citations'[Len(citations')]
            IN \A k \in DOMAIN citations :
                 ~(/\ new.startIndex >= citations[k].startIndex
                   /\ new.startIndex < citations[k].endIndex)]_vars

C27_ShortInsideFullSkipped ==
  /\ phase = "short"
  /\ text = RoeFragment
  /\ lastIndex > 0
  /\ Len(citations) = 1
  /\ citations[1].startIndex = 0
  /\ citations[1].caseName = <<"R","o","e"," ","v","."," ","W","a","d","e">>

\* C28: the risk is LOW with the recommendation that all citations are
\* verified only for a report in which every citation has status verified
C28_AllVerifiedMeansVerified ==
  (/\ returned # Pending
   /\ returned.value.level = "LOW"
   /\ returned.value.recommendation
        = "All citations verified. Document appears safe to file.")
    => argument.verified = argument.totalCitations

\* C29: the score of a report whose counts add up to its total is an integer
\* from 0 to 100, at every level
C29_ScoreInRange ==
  (/\ returned # Pending
   /\ argument.verified + argument.notFound + argument.partialMatches
        + argument.formatErrors + argument.apiErrors = argument.totalCitations)
    => returned.value.score \in 0..100
====
